---- MODULE Spec2Model ----
(***************************************************************************)
(* XTBpy connection engine (src/XTB/handler.py, src/XTB/client.py).        *)
(*                                                                         *)
(* Two state machines share this module.                                   *)
(*                                                                         *)
(*  PoolSpec / PoolSeqSpec  HandlerManager: the two registries, the        *)
(*      connection counter, provide_DataHandler / provide_StreamHandler    *)
(*      and the wrapper's _open_stream_channel, run by caller threads.     *)
(*      A handler's constructor is one step whose outcome (login ok or     *)
(*      not, KeepAlive sent or not) is chosen nondeterministically.        *)
(*                                                                         *)
(*  Spec  one Session and one StreamMultiplexer at the level of locks,     *)
(*      sockets and threads: caller threads, the keepalive threads and     *)
(*      the stream read thread, each with a call stack of frames.          *)
(***************************************************************************)
EXTENDS Naturals, Sequences, FiniteSets, TLC

\* ------------------------------------------------------------------------
\* Configuration read from XTB/api.cfg (handler.py lines 24-25).
SEND_INTERVAL == 500
MAX_CONNECTIONS == 2

\* Bounds of the model.
PoolMaxCalls == 2

\* ========================================================================
\* HandlerManager
\* ========================================================================
PoolThreads == {"u1", "u2"}

\* self._max_streams = floor(1000/SEND_INTERVAL)
max_streams == 1000 \div SEND_INTERVAL

VARIABLES
    dataReg,      \* _handlers['data'], in insertion order: <<[status, ssid]>>
    streamReg,    \* _handlers['stream'], in insertion order: <<[status, tasks, dh]>>
    connections,  \* HandlerManager._connections
    ppc,          \* where each caller thread is
    plocal        \* its locals: [op, cont, dh, sh, calls, ret]

poolvars == <<dataReg, streamReg, connections, ppc, plocal>>

\* state of one Session and one StreamMultiplexer (second part of the module)
VARIABLES
    stack,        \* call stack of each thread (top = last frame)
    tstate,       \* "idle" | "run" | "off" | "dead" | "raised"
    ret,          \* value returned by the last call that returned
    pingLock,     \* _ping_lock of each handler: its holder
    reconnLock,   \* _reconnect_lock of the Session: its holder
    sock,         \* "bad" (check('basic') fails) | "fresh" (created) | "conn" |
                  \* "void" (_socket never assigned) | "closed"
    ssid,         \* _DataHandler._ssid
    status,       \* _status of each handler
    pingFlag,     \* _ping['ping']: "unset" | "on" | "off"
    tasks,        \* _streams['tasks']: index -> command
    streamFlag,   \* _streams['stream']: "unset" | "on" | "off"
    attached,     \* _DataHandler._stream_handlers
    ncalls,       \* calls made by the caller threads
    npings,       \* pings that came due
    faults,       \* lost sockets and failed sends/receives so far
    inflight,     \* who has a request on the wire and its response pending
    interleaved,  \* a getData/streamData/ping used the wire inside another's exchange
    kaSent,       \* KeepAlive was sent on the multiplexer's current socket
    early,        \* commands subscribed on the current socket before KeepAlive
    repairs       \* sockets created for the handler since its last fault

ctlv == <<stack, tstate, ret>>
lockv == <<pingLock, reconnLock>>
sessv == <<ssid, status, pingFlag>>
strmv == <<tasks, streamFlag, attached>>
budgv == <<ncalls, npings, faults>>
wirev == <<inflight, interleaved, kaSent, early>>
sockv == <<sock, repairs>>
wirevars == <<ctlv, lockv, sessv, strmv, budgv, wirev, sockv>>

\* state of one Client transport (third part of the module)
VARIABLES
    _socket,          \* Client._socket: "none" (never assigned) | "open" | "closed"
    _used_addresses,  \* Client._used_addresses
    avl_addresses,    \* create(): the candidates getaddrinfo returned
    tried_addresses,  \* create(): candidates (positions in avl_addresses) tried in this call
    attempted,        \* positions whose socket setup was attempted in this call, in order
    cpc,              \* "new" (in __init__, before create) | "idle" | "loop" | "raised"
    cret,             \* the last call that ended: [op, val, before (the history it started with)]
    cops              \* calls made on the transport

clientvars == <<_socket, _used_addresses, avl_addresses, tried_addresses,
                attempted, cpc, cret, cops>>

\* teardown
VARIABLES
    hm_deleted,       \* HandlerManager._deleted
    deleted,          \* _deleted of each handler
    ndeletes          \* delete() calls made by the caller threads

downvars == <<hm_deleted, deleted, ndeletes>>

\* one transport under open() and receive()
VARIABLES
    _stream,          \* Client._stream
    _max_fails,       \* Client._max_fails
    xsock,            \* the transport's socket: "fresh" | "conn" | "bad"
    xpc,              \* "new" | "idle" | "open" | "receive" | "raised"
    xattempts,        \* open(): connect attempts made by the call under way
    full_msg,         \* receive(): full_msg
    pending,          \* bytes the server sent that were not read yet
    taken,            \* receive(): the non-empty chunks read by the call, in order
    xret,             \* how the last open() / receive() call ended
    xops              \* calls made on the transport
transportvars == <<_stream, _max_fails, xsock, xpc, xattempts, full_msg, pending, taken,
                   xret, xops>>

\* one transport under send(), and the peer that reads
VARIABLES
    spc,              \* "idle" | "send"
    send_buf,         \* send(): msg after msg.encode("utf-8")
    send_msg,         \* send(): send_msg, the bytes counted as sent
    written,          \* the bytes the socket took from this call, in order
    delivered,        \* the bytes the peer has read of them
    sret,             \* how the last send() call ended
    sops              \* send() calls made
sendvars == <<spc, send_buf, send_msg, written, delivered, sret, sops>>

\* what the actions of one part leave alone
otherThanWire == <<poolvars, clientvars, downvars, transportvars, sendvars>>
otherThanPool == <<wirevars, clientvars, downvars, transportvars, sendvars>>
otherThanClient == <<poolvars, wirevars, downvars, transportvars, sendvars>>
otherThanDown == <<poolvars, clientvars, hm_deleted, transportvars, sendvars>>
otherThanTransport == <<poolvars, wirevars, clientvars, downvars, sendvars>>
otherThanSend == <<poolvars, wirevars, clientvars, downvars, transportvars>>

\* provide_* return a handler (its position in the registry) or False
NoHandler == 0
Commands == {"Candles", "TickPrices"}

PoolInit ==
    /\ dataReg = <<>>
    /\ streamReg = <<>>
    /\ connections = 0
    /\ ppc = [t \in PoolThreads |-> "idle"]
    /\ plocal = [t \in PoolThreads |->
                   [op |-> "none", cont |-> "top", dh |-> NoHandler, sh |-> NoHandler,
                    calls |-> 0, ret |-> "none"]]

\* a scan that returns the first registered Session whatever its status
_avlb_DataHandler_first_registered ==
    IF dataReg = <<>> THEN NoHandler ELSE 1

\* for handler in self._handlers['data']: if handler.get_status() == 'active': return handler
_avlb_DataHandler ==
    LET act == {i \in 1..Len(dataReg) : dataReg[i].status = "active"}
    IN  IF act = {} THEN NoHandler ELSE CHOOSE i \in act : \A j \in act : i <= j

\* first registered multiplexer that is active and below the subscription cap
_avlb_StreamHandler ==
    LET act == {i \in 1..Len(streamReg) :
                   /\ streamReg[i].status = "active"
                   /\ Len(streamReg[i].tasks) < max_streams}
    IN  IF act = {} THEN NoHandler ELSE CHOOSE i \in act : \A j \in act : i <= j

\* _DataHandler.__init__: _login() sets the token and status 'active' when it
\* succeeds; when it fails the status stays None and the token stays None.
\* The constructor does not look at _login's result.
DataHandler_init(loginOk) ==
    [status |-> IF loginOk THEN "active" ELSE "None",
     ssid   |-> IF loginOk THEN "tok" ELSE ""]

\* _StreamHandler.__init__: status 'active', tasks = {}, then streamData('KeepAlive'),
\* whose result is not looked at: KeepAlive is registered when dh has a token
\* and the request could be sent.
StreamHandler_init(dh, sendOk) ==
    [status |-> "active",
     tasks  |-> IF dataReg[dh].ssid # "" /\ sendOk THEN <<"KeepAlive">> ELSE <<>>,
     dh     |-> dh]

\* the end of a top-level call of the wrapper
PoolReturn(t, val, loc) ==
    /\ ppc' = [ppc EXCEPT ![t] = "idle"]
    /\ plocal' = [plocal EXCEPT ![t] = [loc EXCEPT !.op = "none", !.cont = "top", !.ret = val]]

\* Wrapper._open_data_channel: dh = self.provide_DataHandler()
_open_data_channel(t) ==
    /\ ppc[t] = "idle"
    /\ UNCHANGED otherThanPool
    /\ plocal[t].calls < PoolMaxCalls
    /\ ppc' = [ppc EXCEPT ![t] = "pd_avlb"]
    /\ plocal' = [plocal EXCEPT ![t].op = "data", ![t].cont = "top",
                                ![t].dh = NoHandler, ![t].sh = NoHandler,
                                ![t].calls = @ + 1, ![t].ret = "none"]
    /\ UNCHANGED <<dataReg, streamReg, connections>>

\* Wrapper._open_stream_channel: sh = self.provide_StreamHandler()
_open_stream_channel(t) ==
    /\ ppc[t] = "idle"
    /\ UNCHANGED otherThanPool
    /\ plocal[t].calls < PoolMaxCalls
    /\ ppc' = [ppc EXCEPT ![t] = "ps_avlb"]
    /\ plocal' = [plocal EXCEPT ![t].op = "stream", ![t].cont = "top",
                                ![t].dh = NoHandler, ![t].sh = NoHandler,
                                ![t].calls = @ + 1, ![t].ret = "none"]
    /\ UNCHANGED <<dataReg, streamReg, connections>>

\* the value of provide_DataHandler/_generate_DataHandler goes to its caller:
\* _open_data_channel (which then calls getData on it, or fails on
\* self._logger(...), which is not callable) or _generate_StreamHandler
provide_DataHandler_return(t, h) ==
    IF plocal[t].cont = "gs"
    THEN /\ ppc' = [ppc EXCEPT ![t] = "gs_new"]
         /\ plocal' = [plocal EXCEPT ![t].dh = h, ![t].cont = "top"]
    ELSE PoolReturn(t, IF h = NoHandler THEN "raised" ELSE "handler",
                    [plocal[t] EXCEPT !.dh = h])

provide_DataHandler(t) ==
    /\ ppc[t] = "pd_avlb"
    /\ UNCHANGED otherThanPool
    /\ IF _avlb_DataHandler # NoHandler
       THEN provide_DataHandler_return(t, _avlb_DataHandler)
       ELSE /\ ppc' = [ppc EXCEPT ![t] = "gd_check"]
            /\ UNCHANGED plocal
    /\ UNCHANGED <<dataReg, streamReg, connections>>

\* if self._connections >= self._max_connections: return False
_generate_DataHandler_check(t) ==
    /\ ppc[t] = "gd_check"
    /\ UNCHANGED otherThanPool
    /\ IF connections >= MAX_CONNECTIONS
       THEN provide_DataHandler_return(t, NoHandler)
       ELSE /\ ppc' = [ppc EXCEPT ![t] = "gd_new"]
            /\ UNCHANGED plocal
    /\ UNCHANGED <<dataReg, streamReg, connections>>

\* dh = _DataHandler(...); self._handlers['data'][dh] = {'name': name}
_generate_DataHandler_new(t) ==
    /\ ppc[t] = "gd_new"
    /\ UNCHANGED otherThanPool
    /\ \E loginOk \in BOOLEAN :
          dataReg' = Append(dataReg, DataHandler_init(loginOk))
    /\ ppc' = [ppc EXCEPT ![t] = "gd_count"]
    /\ plocal' = [plocal EXCEPT ![t].dh = Len(dataReg) + 1]
    /\ UNCHANGED <<streamReg, connections>>

\* self._connections += 1; return dh
_generate_DataHandler_count(t) ==
    /\ ppc[t] = "gd_count"
    /\ UNCHANGED otherThanPool
    /\ connections' = connections + 1
    /\ provide_DataHandler_return(t, plocal[t].dh)
    /\ UNCHANGED <<dataReg, streamReg>>

provide_StreamHandler(t) ==
    /\ ppc[t] = "ps_avlb"
    /\ UNCHANGED otherThanPool
    /\ IF _avlb_StreamHandler # NoHandler
       THEN /\ ppc' = [ppc EXCEPT ![t] = "sd"]
            /\ plocal' = [plocal EXCEPT ![t].sh = _avlb_StreamHandler]
       ELSE /\ ppc' = [ppc EXCEPT ![t] = "gs_check"]
            /\ UNCHANGED plocal
    /\ UNCHANGED <<dataReg, streamReg, connections>>

\* if self._connections >= self._max_connections: return False
\* (the wrapper then fails: self._logger(...) is not callable);
\* otherwise dh = self.provide_DataHandler()
_generate_StreamHandler_check(t) ==
    /\ ppc[t] = "gs_check"
    /\ UNCHANGED otherThanPool
    /\ IF connections >= MAX_CONNECTIONS
       THEN PoolReturn(t, "raised", plocal[t])
       ELSE /\ ppc' = [ppc EXCEPT ![t] = "pd_avlb"]
            /\ plocal' = [plocal EXCEPT ![t].cont = "gs"]
    /\ UNCHANGED <<dataReg, streamReg, connections>>

\* sh = _StreamHandler(dataHandler=dh, ...): ValueError when dh is False;
\* self._handlers['stream'][sh] = {'name': name}
_generate_StreamHandler_new(t) ==
    /\ ppc[t] = "gs_new"
    /\ UNCHANGED otherThanPool
    /\ IF plocal[t].dh = NoHandler
       THEN /\ PoolReturn(t, "raised", plocal[t])
            /\ UNCHANGED streamReg
       ELSE /\ \E sendOk \in BOOLEAN :
                  streamReg' = Append(streamReg, StreamHandler_init(plocal[t].dh, sendOk))
            /\ ppc' = [ppc EXCEPT ![t] = "gs_count"]
            /\ plocal' = [plocal EXCEPT ![t].sh = Len(streamReg) + 1]
    /\ UNCHANGED <<dataReg, connections>>

\* self._connections += 1; return sh
_generate_StreamHandler_count(t) ==
    /\ ppc[t] = "gs_count"
    /\ UNCHANGED otherThanPool
    /\ connections' = connections + 1
    /\ ppc' = [ppc EXCEPT ![t] = "sd"]
    /\ UNCHANGED <<dataReg, streamReg, plocal>>

\* _open_stream_channel: thread = sh.streamData(...).  streamData returns False
\* without a token; otherwise, under the ping lock, it sends the request and,
\* when that worked, registers the task under index len(tasks).
pool_streamData(t) ==
    /\ ppc[t] = "sd"
    /\ UNCHANGED otherThanPool
    /\ LET sh == plocal[t].sh
           dh == streamReg[sh].dh
       IN  IF dataReg[dh].ssid = ""
           THEN /\ PoolReturn(t, "False", plocal[t])
                /\ UNCHANGED streamReg
           ELSE \E cmd \in Commands, sendOk \in BOOLEAN :
                  IF sendOk
                  THEN /\ streamReg' = [streamReg EXCEPT ![sh].tasks = Append(@, cmd)]
                       /\ PoolReturn(t, "True", plocal[t])
                  ELSE /\ PoolReturn(t, "False", plocal[t])
                       /\ UNCHANGED streamReg
    /\ UNCHANGED <<dataReg, connections>>

\* `handler.get_status == 'active'` in HandlerManager.delete: get_status is a
\* method and is not called, so a bound method is compared with a string
get_status_is_active(i) == FALSE

\* _delete_handler on a Session: handler.delete() (its multiplexers deleted,
\* logout), self._connections -= 1
_delete_handler(reg, i) ==
    [reg EXCEPT ![i] = [status |-> "inactive", ssid |-> ""]]

\* HandlerManager.delete (Wrapper.delete calls it): returns True when already
\* deleted; otherwise deletes the handlers that pass the test, sets _deleted
\* and returns None
HandlerManager_delete(t) ==
    /\ ppc[t] = "idle"
    /\ UNCHANGED <<wirevars, clientvars, deleted, ndeletes, transportvars, sendvars>>
    /\ plocal[t].calls < PoolMaxCalls
    /\ LET hit == {i \in 1..Len(dataReg) : get_status_is_active(i)}
           loc == [plocal[t] EXCEPT !.calls = @ + 1, !.dh = NoHandler, !.sh = NoHandler]
       IN  IF hm_deleted
           THEN /\ PoolReturn(t, "True", loc)
                /\ UNCHANGED <<dataReg, streamReg, connections, hm_deleted>>
           ELSE /\ dataReg' = [i \in 1..Len(dataReg) |->
                                 IF i \in hit THEN _delete_handler(dataReg, i)[i] ELSE dataReg[i]]
                /\ streamReg' = [j \in 1..Len(streamReg) |->
                                   IF streamReg[j].dh \in hit
                                   THEN [streamReg[j] EXCEPT !.status = "inactive"]
                                   ELSE streamReg[j]]
                /\ connections' = connections - Cardinality(hit)
                /\ hm_deleted' = TRUE
                /\ PoolReturn(t, "deleted", loc)

PoolStep(t) ==
    \/ _open_data_channel(t)
    \/ _open_stream_channel(t)
    \/ provide_DataHandler(t)
    \/ _generate_DataHandler_check(t)
    \/ _generate_DataHandler_new(t)
    \/ _generate_DataHandler_count(t)
    \/ provide_StreamHandler(t)
    \/ _generate_StreamHandler_check(t)
    \/ _generate_StreamHandler_new(t)
    \/ _generate_StreamHandler_count(t)
    \/ pool_streamData(t)

\* ========================================================================
\* One Session and one StreamMultiplexer: locks, sockets, threads
\* ========================================================================

\* Bounds of the model: calls made by the caller threads together, pings
\* that come due, and failures (a lost socket, or a send/receive that fails
\* on a connected socket).
MaxCalls == 2
MaxPings == 1
MaxFaults == 1

DH == "dh"
SH == "sh"
Sessions == {DH}
Muxes == {SH}
Handlers == Sessions \cup Muxes

Callers == {"t1", "t2"}
\* _ping['thread'] of each handler, _streams['thread'] of the multiplexer
pingThread == [h \in Handlers |-> IF h = DH THEN "ping_dh" ELSE "ping_sh"]
readThread == [m \in Muxes |-> "read_sh"]
Threads == Callers \cup {pingThread[h] : h \in Handlers} \cup {readThread[m] : m \in Muxes}
NoThread == "nobody"

StreamCmds == {"Candles"}
\* what a data socket answers: status true with returnData / streamSessionId,
\* status true without them, status false, no status field
DataResp == {"ok", "okBare", "statusFalse", "noStatus"}
\* what the stream socket pushes: a packet with data, a packet with empty data
StreamResp == {"data", "empty"}

\* self._dh of a multiplexer
parent(h) == DH

\* ------------------------------------------------------------------ frames
Frame(proc, pc, h) ==
    [proc |-> proc, pc |-> pc, h |-> h, retry |-> FALSE, retry0 |-> FALSE,
     data |-> FALSE, cmd |-> "", att |-> 0, cb |-> 0, tok |-> "",
     held |-> "none", inThread |-> FALSE]

Result(proc, val) ==
    [proc |-> proc, val |-> val, att |-> 0, cb |-> 0, retry0 |-> FALSE,
     ok |-> TRUE, resp |-> "none", tok |-> "", data |-> FALSE]

NoResult == Result("none", "none")

Top(t) == stack[t][Len(stack[t])]
At(t, proc, pc) ==
    /\ tstate[t] = "run"
    /\ stack[t] # <<>>
    /\ Top(t).proc = proc
    /\ Top(t).pc = pc
SetTop(s, f) == [s EXCEPT ![Len(s)] = f]
PopOff(s) == SubSeq(s, 1, Len(s) - 1)
\* the frame that called _request/_receive
Ctx(t) == stack[t][Len(stack[t]) - 1]

\* a thread whose target function returned is finished; a caller is free again
Finished(t) == IF t \in Callers THEN "idle" ELSE "dead"

\* the top frame becomes f; a value returned to it has been used
Goto(t, f) ==
    /\ stack' = [stack EXCEPT ![t] = SetTop(@, f)]
    /\ ret' = [ret EXCEPT ![t] = NoResult]
    /\ UNCHANGED tstate

\* the top frame becomes f and calls callee
Call(t, f, callee) ==
    /\ stack' = [stack EXCEPT ![t] = Append(SetTop(@, f), callee)]
    /\ ret' = [ret EXCEPT ![t] = NoResult]
    /\ UNCHANGED tstate

\* the top frame returns r; what a thread's target function returns is dropped
Return(t, r) ==
    /\ stack' = [stack EXCEPT ![t] = PopOff(@)]
    /\ ret' = [ret EXCEPT ![t] = IF Len(stack[t]) = 1 /\ t \notin Callers THEN NoResult ELSE r]
    /\ tstate' = [tstate EXCEPT ![t] = IF Len(stack[t]) = 1 THEN Finished(t) ELSE "run"]

\* an exception nobody catches: every frame is left, each `with` block on the
\* way releases its lock (a lock taken with acquire() stays held), and the
\* thread (or the caller's call) ends
HoldsWith(t, kind, h) ==
    \E i \in 1..Len(stack[t]) : stack[t][i].held = kind /\ stack[t][i].h = h
Raise(t, proc) ==
    /\ stack' = [stack EXCEPT ![t] = <<>>]
    /\ ret' = [ret EXCEPT ![t] = Result(proc, "raised")]
    /\ tstate' = [tstate EXCEPT ![t] = "raised"]
    /\ pingLock' = [h \in Handlers |->
                      IF HoldsWith(t, "ping", h) THEN NoThread ELSE pingLock[h]]
    /\ reconnLock' = [d \in Sessions |->
                      IF \E h \in Handlers : parent(h) = d /\ HoldsWith(t, "reconn", h)
                      THEN NoThread ELSE reconnLock[d]]

\* ------------------------------------------------------------------ socket
\* Client.check('basic')
check_basic(h) == sock[h] \notin {"bad", "void", "closed"}

\* Client.create(): a new socket object when some candidate address works;
\* otherwise the old socket object stays
create(h, ok) ==
    /\ sock' = IF ok THEN [sock EXCEPT ![h] = "fresh"] ELSE sock
    /\ repairs' = IF ok THEN [repairs EXCEPT ![h] = @ + 1] ELSE repairs
    /\ kaSent' = IF ok /\ h \in Muxes THEN [kaSent EXCEPT ![h] = FALSE] ELSE kaSent

\* Client.send / Client.receive work on a connected socket, and may fail there
\* (not writable, nothing to read yet, a socket error)
IoOutcomes(h) ==
    IF sock[h] = "conn"
    THEN {TRUE} \cup (IF faults < MaxFaults THEN {FALSE} ELSE {})
    ELSE {FALSE}
IoCount(h, ok) ==
    faults' = IF sock[h] = "conn" /\ ~ok THEN faults + 1 ELSE faults

ExpectsResponse(f) ==
    \/ f.proc = "getData"
    \/ f.proc = "_send_ping" /\ f.tok = ""

\* what one send or receive on h's socket by thread t leaves behind
WireOp(t, h, dir, ok, cmd) ==
    LET c == Ctx(t) IN
    /\ interleaved' = (interleaved \/
          (c.proc \in {"getData", "streamData", "_send_ping"} /\ inflight[h] \notin {NoThread, t}))
    /\ inflight' = IF dir = "send" /\ ok /\ ExpectsResponse(c)
                   THEN [inflight EXCEPT ![h] = t] ELSE inflight
    /\ early' = IF dir = "send" /\ ok /\ h \in Muxes /\ c.proc = "streamData"
                   /\ cmd # "KeepAlive" /\ ~kaSent[h]
                THEN [early EXCEPT ![h] = @ \cup {cmd}] ELSE early

\* the socket is lost: check('basic') fails from now on
SocketFault(h) ==
    /\ faults < MaxFaults
    /\ UNCHANGED otherThanWire
    /\ sock[h] = "conn"
    /\ faults' = faults + 1
    /\ sock' = [sock EXCEPT ![h] = "bad"]
    /\ repairs' = [repairs EXCEPT ![h] = 0]
    /\ UNCHANGED <<ctlv, lockv, sessv, strmv, ncalls, npings, wirev>>

\* ------------------------------------------------------------------ _request
reconnect_of(h) == IF h \in Sessions THEN "DH_reconnect" ELSE "SH_reconnect"

\* mutation of _request: retry is not cleared after the callback
_request_retry_kept(t) ==
    /\ At(t, "_request", "send")
    /\ UNCHANGED otherThanWire
    /\ LET f == Top(t)
           h == f.h
       IN  \E ok \in IoOutcomes(h) :
             /\ IoCount(h, ok)
             /\ WireOp(t, h, "send", ok, f.cmd)
             /\ kaSent' = IF ok /\ h \in Muxes /\ Ctx(t).proc = "streamData" /\ f.cmd = "KeepAlive"
                          THEN [kaSent EXCEPT ![h] = TRUE] ELSE kaSent
             /\ IF ok
                THEN Return(t, [Result("_request", "True") EXCEPT
                                  !.att = f.att + 1, !.cb = f.cb, !.retry0 = f.retry0, !.ok = TRUE])
                ELSE IF f.retry /\ f.cb < 2
                THEN Call(t, [f EXCEPT !.att = @ + 1, !.cb = @ + 1],
                          Frame(reconnect_of(h), "begin", h))
                ELSE Return(t, [Result("_request", "False") EXCEPT
                                  !.att = f.att + 1, !.cb = f.cb, !.retry0 = f.retry0, !.ok = FALSE])
    /\ UNCHANGED <<lockv, sessv, strmv, ncalls, npings, sock, repairs>>

\* while True: if not self._send_request(**kwargs): if retry:
\*     self._call_reconnect(); retry=False; continue; return False; break; return True
_request(t) ==
    /\ At(t, "_request", "send")
    /\ UNCHANGED otherThanWire
    /\ LET f == Top(t)
           h == f.h
       IN  \E ok \in IoOutcomes(h) :
             /\ IoCount(h, ok)
             /\ WireOp(t, h, "send", ok, f.cmd)
             /\ kaSent' = IF ok /\ h \in Muxes /\ Ctx(t).proc = "streamData" /\ f.cmd = "KeepAlive"
                          THEN [kaSent EXCEPT ![h] = TRUE] ELSE kaSent
             /\ IF ok
                THEN Return(t, [Result("_request", "True") EXCEPT
                                  !.att = f.att + 1, !.cb = f.cb, !.retry0 = f.retry0, !.ok = TRUE])
                ELSE IF f.retry
                THEN Call(t, [f EXCEPT !.att = @ + 1, !.cb = @ + 1, !.retry = FALSE],
                          Frame(reconnect_of(h), "begin", h))
                ELSE Return(t, [Result("_request", "False") EXCEPT
                                  !.att = f.att + 1, !.cb = f.cb, !.retry0 = f.retry0, !.ok = FALSE])
    /\ UNCHANGED <<lockv, sessv, strmv, ncalls, npings, sock, repairs>>

\* ------------------------------------------------------------------ _receive
RespKinds(f) == IF f.data THEN DataResp ELSE StreamResp

\* if data: 'status' missing -> False; status false -> False
Validated(f, kind) ==
    IF f.data /\ kind \in {"noStatus", "statusFalse"} THEN "False" ELSE kind

_receive(t) ==
    /\ At(t, "_receive", "recv")
    /\ UNCHANGED otherThanWire
    /\ LET f == Top(t)
           h == f.h
       IN  \E ok \in IoOutcomes(h) :
             /\ IoCount(h, ok)
             /\ WireOp(t, h, "recv", ok, f.cmd)
             /\ IF ok
                THEN \E kind \in RespKinds(f) :
                       Return(t, [Result("_receive", Validated(f, kind)) EXCEPT
                                    !.att = f.att + 1, !.cb = f.cb, !.retry0 = f.retry0,
                                    !.ok = TRUE, !.resp = kind, !.data = f.data])
                ELSE IF f.retry
                THEN Call(t, [f EXCEPT !.att = @ + 1, !.cb = @ + 1, !.retry = FALSE],
                          Frame(reconnect_of(h), "begin", h))
                ELSE Return(t, [Result("_receive", "False") EXCEPT
                                  !.att = f.att + 1, !.cb = f.cb, !.retry0 = f.retry0,
                                  !.ok = FALSE, !.data = f.data])
    /\ UNCHANGED <<lockv, sessv, strmv, ncalls, npings, sock, repairs, kaSent>>

request_frame(h, retry, cmd) ==
    [Frame("_request", "send", h) EXCEPT !.retry = retry, !.retry0 = retry, !.cmd = cmd]
receive_frame(h, retry, data) ==
    [Frame("_receive", "recv", h) EXCEPT !.retry = retry, !.retry0 = retry, !.data = data]

\* ------------------------------------------------------------------ getData
\* a caller calls dh.getData(command)
getData_call(t) ==
    /\ t \in Callers
    /\ UNCHANGED otherThanWire
    /\ tstate[t] = "idle"
    /\ ncalls < MaxCalls
    /\ status[DH] # "unborn"
    /\ ncalls' = ncalls + 1
    /\ stack' = [stack EXCEPT ![t] = <<Frame("getData", "check", DH)>>]
    /\ tstate' = [tstate EXCEPT ![t] = "run"]
    /\ ret' = [ret EXCEPT ![t] = NoResult]
    /\ UNCHANGED <<lockv, sessv, strmv, npings, faults, wirev, sockv>>

\* mutation of getData_check: the token is not looked at
getData_check_skipped(t) ==
    /\ At(t, "getData", "check")
    /\ UNCHANGED otherThanWire
    /\ Goto(t, [Top(t) EXCEPT !.pc = "lock", !.tok = ssid[DH]])
    /\ UNCHANGED <<lockv, sessv, strmv, budgv, wirev, sockv>>

\* if not self._ssid: return False
getData_check(t) ==
    /\ At(t, "getData", "check")
    /\ UNCHANGED otherThanWire
    /\ IF ssid[DH] = ""
       THEN Return(t, Result("getData", "False"))
       ELSE Goto(t, [Top(t) EXCEPT !.pc = "lock", !.tok = ssid[DH]])
    /\ UNCHANGED <<lockv, sessv, strmv, budgv, wirev, sockv>>

\* mutation of getData_lock: the request is made without waiting for the lock
getData_lock_nowait(t) ==
    /\ At(t, "getData", "lock")
    /\ UNCHANGED otherThanWire
    /\ pingLock' = [pingLock EXCEPT ![DH] = t]
    /\ Call(t, [Top(t) EXCEPT !.pc = "afterReq", !.held = "ping"],
            request_frame(DH, TRUE, "get"))
    /\ UNCHANGED <<reconnLock, sessv, strmv, budgv, wirev, sockv>>

\* with self._ping_lock: self._request(command='get'+command, ...)
getData_lock(t) ==
    /\ At(t, "getData", "lock")
    /\ UNCHANGED otherThanWire
    /\ pingLock[DH] = NoThread
    /\ pingLock' = [pingLock EXCEPT ![DH] = t]
    /\ Call(t, [Top(t) EXCEPT !.pc = "afterReq", !.held = "ping"],
            request_frame(DH, TRUE, "get"))
    /\ UNCHANGED <<reconnLock, sessv, strmv, budgv, wirev, sockv>>

\* a getData that leaves with the lock when the request could not be sent
getData_afterReq_lock_kept(t) ==
    /\ At(t, "getData", "afterReq")
    /\ UNCHANGED otherThanWire
    /\ LET f == [Top(t) EXCEPT !.att = @ + ret[t].att, !.cb = @ + ret[t].cb] IN
       IF ret[t].val = "False"
       THEN Return(t, [Result("getData", "False") EXCEPT
                         !.att = f.att, !.cb = f.cb, !.tok = f.tok, !.ok = FALSE])
       ELSE Call(t, [f EXCEPT !.pc = "afterRecv"], receive_frame(DH, TRUE, TRUE))
    /\ UNCHANGED <<lockv, sessv, strmv, budgv, wirev, sockv>>

\* if not self._request(...): return False;  response = self._receive(data = True)
getData_afterReq(t) ==
    /\ At(t, "getData", "afterReq")
    /\ UNCHANGED otherThanWire
    /\ LET f == [Top(t) EXCEPT !.att = @ + ret[t].att, !.cb = @ + ret[t].cb] IN
       IF ret[t].val = "False"
       THEN /\ Return(t, [Result("getData", "False") EXCEPT
                            !.att = f.att, !.cb = f.cb, !.tok = f.tok, !.ok = FALSE])
            /\ pingLock' = [pingLock EXCEPT ![DH] = NoThread]
       ELSE /\ Call(t, [f EXCEPT !.pc = "afterRecv"], receive_frame(DH, TRUE, TRUE))
            /\ UNCHANGED pingLock
    /\ UNCHANGED <<reconnLock, sessv, strmv, budgv, wirev, sockv>>

\* mutation of getData_afterRecv: whatever the server answered is handed out
getData_afterRecv_unchecked(t) ==
    /\ At(t, "getData", "afterRecv")
    /\ UNCHANGED otherThanWire
    /\ LET f == Top(t)
           v == IF ret[t].ok THEN "returnData" ELSE "False"
       IN  Return(t, [Result("getData", v) EXCEPT
                        !.att = f.att + ret[t].att, !.cb = f.cb + ret[t].cb,
                        !.tok = f.tok, !.ok = ret[t].ok, !.resp = ret[t].resp])
    /\ pingLock' = [pingLock EXCEPT ![DH] = NoThread]
    /\ inflight' = [inflight EXCEPT ![DH] = IF @ = t THEN NoThread ELSE @]
    /\ UNCHANGED <<reconnLock, sessv, strmv, budgv, interleaved, kaSent, early, sockv>>

\* if not response: return False; if not 'returnData' in response: return False;
\* return response['returnData']
getData_afterRecv(t) ==
    /\ At(t, "getData", "afterRecv")
    /\ UNCHANGED otherThanWire
    /\ LET f == Top(t)
           v == IF ret[t].val = "ok" THEN "returnData" ELSE "False"
       IN  Return(t, [Result("getData", v) EXCEPT
                        !.att = f.att + ret[t].att, !.cb = f.cb + ret[t].cb,
                        !.tok = f.tok, !.ok = ret[t].ok, !.resp = ret[t].resp])
    /\ pingLock' = [pingLock EXCEPT ![DH] = NoThread]
    /\ inflight' = [inflight EXCEPT ![DH] = IF @ = t THEN NoThread ELSE @]
    /\ UNCHANGED <<reconnLock, sessv, strmv, budgv, interleaved, kaSent, early, sockv>>

\* ------------------------------------------------------------------ open
\* if not self.check(mode='basic'): if not self.create(): return False
open_check(t) ==
    /\ At(t, "open", "check")
    /\ UNCHANGED otherThanWire
    /\ LET f == Top(t) IN
       IF check_basic(f.h)
       THEN /\ Goto(t, [f EXCEPT !.pc = "connect"])
            /\ UNCHANGED <<sockv, kaSent>>
       ELSE \E ok \in BOOLEAN :
              /\ create(f.h, ok)
              /\ IF ok THEN Goto(t, [f EXCEPT !.pc = "connect"])
                       ELSE Return(t, Result("open", "False"))
    /\ UNCHANGED <<lockv, sessv, strmv, budgv, inflight, interleaved, early>>

\* for _ in range(self._max_fails): connect; a socket that is already
\* connected refuses every attempt
open_connect(t) ==
    /\ At(t, "open", "connect")
    /\ UNCHANGED otherThanWire
    /\ LET h == Top(t).h IN
       \E ok \in (IF sock[h] = "fresh" THEN BOOLEAN ELSE {FALSE}) :
          /\ sock' = IF ok THEN [sock EXCEPT ![h] = "conn"] ELSE sock
          /\ Return(t, Result("open", IF ok THEN "True" ELSE "False"))
    /\ UNCHANGED <<lockv, sessv, strmv, budgv, wirev, repairs>>

\* ------------------------------------------------------------------ _login
\* with self._ping_lock: if not self.open(): return False
_login_lock(t) ==
    /\ At(t, "_login", "lock")
    /\ UNCHANGED otherThanWire
    /\ pingLock[Top(t).h] = NoThread
    /\ pingLock' = [pingLock EXCEPT ![Top(t).h] = t]
    /\ Call(t, [Top(t) EXCEPT !.pc = "afterOpen", !.held = "ping"],
            Frame("open", "check", Top(t).h))
    /\ UNCHANGED <<reconnLock, sessv, strmv, budgv, wirev, sockv>>

_login_afterOpen(t) ==
    /\ At(t, "_login", "afterOpen")
    /\ UNCHANGED otherThanWire
    /\ IF ret[t].val = "False"
       THEN /\ Return(t, Result("_login", "False"))
            /\ pingLock' = [pingLock EXCEPT ![Top(t).h] = NoThread]
       ELSE /\ Call(t, [Top(t) EXCEPT !.pc = "afterReq"],
                    request_frame(Top(t).h, FALSE, "login"))
            /\ UNCHANGED pingLock
    /\ UNCHANGED <<reconnLock, sessv, strmv, budgv, wirev, sockv>>

\* if not self._request(retry = False, command='login', ...): return False
_login_afterReq(t) ==
    /\ At(t, "_login", "afterReq")
    /\ UNCHANGED otherThanWire
    /\ IF ret[t].val = "False"
       THEN /\ Return(t, Result("_login", "False"))
            /\ pingLock' = [pingLock EXCEPT ![Top(t).h] = NoThread]
       ELSE /\ Call(t, [Top(t) EXCEPT !.pc = "afterRecv"],
                    receive_frame(Top(t).h, FALSE, TRUE))
            /\ UNCHANGED pingLock
    /\ UNCHANGED <<reconnLock, sessv, strmv, budgv, wirev, sockv>>

\* a _login that forgets the old token when no response came
_login_afterRecv_token_dropped(t) ==
    /\ At(t, "_login", "afterRecv")
    /\ UNCHANGED otherThanWire
    /\ LET h == Top(t).h IN
       IF ret[t].val = "False"
       THEN /\ Return(t, Result("_login", "False"))
            /\ pingLock' = [pingLock EXCEPT ![h] = NoThread]
            /\ ssid' = [ssid EXCEPT ![h] = ""]
            /\ UNCHANGED <<reconnLock, status, pingFlag>>
       ELSE IF ret[t].val = "okBare"
       THEN /\ Raise(t, "_login")
            /\ UNCHANGED sessv
       ELSE /\ Return(t, Result("_login", "True"))
            /\ pingLock' = [pingLock EXCEPT ![h] = NoThread]
            /\ ssid' = [ssid EXCEPT ![h] = "tok"]
            /\ status' = [status EXCEPT ![h] = "active"]
            /\ UNCHANGED <<reconnLock, pingFlag>>
    /\ UNCHANGED <<strmv, budgv, wirev, sockv>>

\* response=self._receive(retry = False, data = True); if not response: return False
\* self._ssid=response['streamSessionId'] (KeyError without it); self._status='active'
_login_afterRecv(t) ==
    /\ At(t, "_login", "afterRecv")
    /\ UNCHANGED otherThanWire
    /\ LET h == Top(t).h IN
       IF ret[t].val = "False"
       THEN /\ Return(t, Result("_login", "False"))
            /\ pingLock' = [pingLock EXCEPT ![h] = NoThread]
            /\ UNCHANGED <<reconnLock, sessv>>
       ELSE IF ret[t].val = "okBare"
       THEN /\ Raise(t, "_login")
            /\ UNCHANGED sessv
       ELSE /\ Return(t, Result("_login", "True"))
            /\ pingLock' = [pingLock EXCEPT ![h] = NoThread]
            /\ ssid' = [ssid EXCEPT ![h] = "tok"]
            /\ status' = [status EXCEPT ![h] = "active"]
            /\ UNCHANGED <<reconnLock, pingFlag>>
    /\ UNCHANGED <<strmv, budgv, wirev, sockv>>

\* ------------------------------------------------------------------ _DataHandler._reconnect
\* with self._reconnect_lock: self._status='inactive'; if not self.check('basic'): ...
DH_reconnect_lock(t) ==
    /\ At(t, "DH_reconnect", "begin")
    /\ UNCHANGED otherThanWire
    /\ reconnLock[DH] = NoThread
    /\ status' = [status EXCEPT ![DH] = "inactive"]
    /\ IF check_basic(DH)
       THEN /\ Return(t, Result("DH_reconnect", "True"))
            /\ UNCHANGED reconnLock
       ELSE /\ Goto(t, [Top(t) EXCEPT !.pc = "create", !.held = "reconn"])
            /\ reconnLock' = [reconnLock EXCEPT ![DH] = t]
    /\ UNCHANGED <<pingLock, ssid, pingFlag, strmv, budgv, wirev, sockv>>

\* if not self.create(): return False;  if not self._login(): ...
DH_reconnect_create(t) ==
    /\ At(t, "DH_reconnect", "create")
    /\ UNCHANGED otherThanWire
    /\ \E ok \in BOOLEAN :
         /\ create(DH, ok)
         /\ IF ok
            THEN /\ Call(t, [Top(t) EXCEPT !.pc = "afterLogin"], Frame("_login", "lock", DH))
                 /\ UNCHANGED reconnLock
            ELSE /\ Return(t, Result("DH_reconnect", "False"))
                 /\ reconnLock' = [reconnLock EXCEPT ![DH] = NoThread]
    /\ UNCHANGED <<pingLock, sessv, strmv, budgv, inflight, interleaved, early>>

\* The rest of the method (if not self._login(): return False; self._status =
\* 'active'; self._start_ping(); return True) is only entered when _login
\* returns.  Every caller of this method (getData, _send_ping) holds the ping
\* lock that _login waits for, so no thread is ever at "afterLogin" with the
\* stack top: DH_reconnect_tail_unreached.
DH_reconnect_tail_unreached ==
    \A t \in Threads : ~At(t, "DH_reconnect", "afterLogin")

\* ------------------------------------------------------------------ _start_ping
\* self._ping['ping'] = True; self._ping['thread'] = Thread(...); start()
ping_started(t, h) ==
    /\ tstate[pingThread[h]] # "run"
    /\ pingFlag' = [pingFlag EXCEPT ![h] = "on"]
    /\ stack' = [stack EXCEPT ![t] = PopOff(@),
                              ![pingThread[h]] =
                                  <<[Frame("_send_ping", "loop", h) EXCEPT !.tok = Top(t).tok]>>]
    /\ tstate' = [tstate EXCEPT ![t] = IF Len(stack[t]) = 1 THEN Finished(t) ELSE "run",
                                ![pingThread[h]] = "run"]
    /\ ret' = [ret EXCEPT ![t] = Result("_start_ping", "True"),
                          ![pingThread[h]] = NoResult]

\* if 'ping' in self._ping: if self._ping['ping']: self._stop_ping()
_start_ping(t) ==
    /\ At(t, "_start_ping", "begin")
    /\ UNCHANGED otherThanWire
    /\ LET h == Top(t).h IN
       IF pingFlag[h] = "on"
       THEN /\ pingFlag' = [pingFlag EXCEPT ![h] = "off"]
            /\ Goto(t, [Top(t) EXCEPT !.pc = "join"])
       ELSE ping_started(t, h)
    /\ UNCHANGED <<lockv, ssid, status, strmv, budgv, wirev, sockv>>

\* _stop_ping(): self._ping['thread'].join() - a thread cannot join itself
\* (RuntimeError) - and then the new thread is started
_stop_ping_join(t) ==
    /\ At(t, "_start_ping", "join")
    /\ UNCHANGED otherThanWire
    /\ LET h == Top(t).h IN
       IF pingThread[h] = t
       THEN /\ Raise(t, "_stop_ping")
            /\ UNCHANGED pingFlag
       ELSE /\ ping_started(t, h)
            /\ UNCHANGED lockv
    /\ UNCHANGED <<ssid, status, strmv, budgv, wirev, sockv>>

\* ------------------------------------------------------------------ _send_ping
\* while self._ping['ping']: the loop ends when the flag is cleared
_send_ping_exit(t) ==
    /\ At(t, "_send_ping", "loop")
    /\ UNCHANGED otherThanWire
    /\ pingFlag[Top(t).h] # "on"
    /\ Return(t, NoResult)
    /\ UNCHANGED <<lockv, sessv, strmv, budgv, wirev, sockv>>

\* if next_ping >= ping_interval: the ping is due
_send_ping_due(t) ==
    /\ At(t, "_send_ping", "loop")
    /\ UNCHANGED otherThanWire
    /\ pingFlag[Top(t).h] = "on"
    /\ npings < MaxPings
    /\ npings' = npings + 1
    /\ Goto(t, [Top(t) EXCEPT !.pc = "lock"])
    /\ UNCHANGED <<lockv, sessv, strmv, ncalls, faults, wirev, sockv>>

\* with self._ping_lock: self._request(command='ping', retry=True,
\*     stream=ssid if not bool(ssid) else None)
\* the request frame's tok is the stream argument ("" for None)
_send_ping_lock(t) ==
    /\ At(t, "_send_ping", "lock")
    /\ UNCHANGED otherThanWire
    /\ pingLock[Top(t).h] = NoThread
    /\ pingLock' = [pingLock EXCEPT ![Top(t).h] = t]
    /\ Call(t, [Top(t) EXCEPT !.pc = "afterReq", !.held = "ping"],
            [request_frame(Top(t).h, TRUE, "ping") EXCEPT
                !.tok = IF ~(Top(t).tok # "") THEN Top(t).tok ELSE ""])
    /\ UNCHANGED <<reconnLock, sessv, strmv, budgv, wirev, sockv>>

\* a failed ping: self._stop_ping(inThread=True); return False
ping_failed(t, h) ==
    /\ Return(t, NoResult)
    /\ pingFlag' = [pingFlag EXCEPT ![h] = "off"]
    /\ pingLock' = [pingLock EXCEPT ![h] = NoThread]

\* if not self._request(...): failed; if not ssid: self._receive(data = True, retry=True)
_send_ping_afterReq(t) ==
    /\ At(t, "_send_ping", "afterReq")
    /\ UNCHANGED otherThanWire
    /\ LET f == Top(t) IN
       IF ret[t].val = "False"
       THEN ping_failed(t, f.h)
       ELSE IF f.tok = ""
       THEN /\ Call(t, [f EXCEPT !.pc = "afterRecv"], receive_frame(f.h, TRUE, TRUE))
            /\ UNCHANGED <<pingLock, pingFlag>>
       ELSE /\ Goto(t, [f EXCEPT !.pc = "loop", !.held = "none"])
            /\ pingLock' = [pingLock EXCEPT ![f.h] = NoThread]
            /\ UNCHANGED pingFlag
    /\ UNCHANGED <<reconnLock, ssid, status, strmv, budgv, wirev, sockv>>

\* if not self._receive(...): failed; next_ping = 0
_send_ping_afterRecv(t) ==
    /\ At(t, "_send_ping", "afterRecv")
    /\ UNCHANGED otherThanWire
    /\ LET f == Top(t) IN
       IF ret[t].val = "False"
       THEN ping_failed(t, f.h)
       ELSE /\ Goto(t, [f EXCEPT !.pc = "loop", !.held = "none"])
            /\ pingLock' = [pingLock EXCEPT ![f.h] = NoThread]
            /\ UNCHANGED pingFlag
    /\ inflight' = [inflight EXCEPT ![Top(t).h] = IF @ = t THEN NoThread ELSE @]
    /\ UNCHANGED <<reconnLock, ssid, status, strmv, budgv, interleaved, kaSent,
                   early, sockv>>

\* ------------------------------------------------------------------ _StreamHandler.__init__
\* HandlerManager._generate_StreamHandler: sh = _StreamHandler(dataHandler=dh).
\* Client.__init__ creates the socket; self._status='active'; self.open()
SH_init_call(t) ==
    /\ t \in Callers
    /\ UNCHANGED otherThanWire
    /\ tstate[t] = "idle"
    /\ status[SH] = "unborn"
    /\ ncalls < MaxCalls
    /\ ncalls' = ncalls + 1
    /\ \E ok \in BOOLEAN : create(SH, ok)
    /\ status' = [status EXCEPT ![SH] = "active"]
    /\ stack' = [stack EXCEPT ![t] = <<Frame("SH_init", "afterOpen", SH),
                                       Frame("open", "check", SH)>>]
    /\ tstate' = [tstate EXCEPT ![t] = "run"]
    /\ ret' = [ret EXCEPT ![t] = NoResult]
    /\ UNCHANGED <<lockv, ssid, pingFlag, strmv, npings, faults,
                   inflight, interleaved, early>>

\* self._streams={'tasks': {}}; self.streamData('KeepAlive')
SH_init_afterOpen(t) ==
    /\ At(t, "SH_init", "afterOpen")
    /\ UNCHANGED otherThanWire
    /\ Call(t, [Top(t) EXCEPT !.pc = "afterKA"],
            [Frame("streamData", "check", SH) EXCEPT !.cmd = "KeepAlive"])
    /\ UNCHANGED <<lockv, sessv, strmv, budgv, wirev, sockv>>

\* self._start_ping(ssid = self._dh._ssid)
SH_init_afterKA(t) ==
    /\ At(t, "SH_init", "afterKA")
    /\ UNCHANGED otherThanWire
    /\ Call(t, [Top(t) EXCEPT !.pc = "afterPing"],
            [Frame("_start_ping", "begin", SH) EXCEPT !.tok = ssid[DH]])
    /\ UNCHANGED <<lockv, sessv, strmv, budgv, wirev, sockv>>

\* self._dh._attach_stream_handler(self); the constructor returns
SH_init_done(t) ==
    /\ At(t, "SH_init", "afterPing")
    /\ UNCHANGED otherThanWire
    /\ Return(t, Result("SH_init", "True"))
    /\ attached' = [attached EXCEPT ![parent(SH)] = @ \cup {SH}]
    /\ UNCHANGED <<lockv, sessv, tasks, streamFlag, budgv, wirev, sockv>>

\* ------------------------------------------------------------------ streamData
\* a caller calls sh.streamData(command) on the multiplexer the pool gave it
streamData_call(t) ==
    /\ t \in Callers
    /\ UNCHANGED otherThanWire
    /\ tstate[t] = "idle"
    /\ SH \in attached[parent(SH)]
    /\ ncalls < MaxCalls
    /\ ncalls' = ncalls + 1
    /\ \E cmd \in StreamCmds :
         stack' = [stack EXCEPT ![t] = <<[Frame("streamData", "check", SH) EXCEPT !.cmd = cmd]>>]
    /\ tstate' = [tstate EXCEPT ![t] = "run"]
    /\ ret' = [ret EXCEPT ![t] = NoResult]
    /\ UNCHANGED <<lockv, sessv, strmv, npings, faults, wirev, sockv>>

\* if not self._dh._ssid: return False
streamData_check(t) ==
    /\ At(t, "streamData", "check")
    /\ UNCHANGED otherThanWire
    /\ IF ssid[parent(Top(t).h)] = ""
       THEN Return(t, [Result("streamData", "False") EXCEPT !.resp = Top(t).cmd])
       ELSE Goto(t, [Top(t) EXCEPT !.pc = "lock", !.tok = ssid[parent(Top(t).h)]])
    /\ UNCHANGED <<lockv, sessv, strmv, budgv, wirev, sockv>>

\* with self._ping_lock: self._request(retry=True, command='get'+command, stream=...)
streamData_lock(t) ==
    /\ At(t, "streamData", "lock")
    /\ UNCHANGED otherThanWire
    /\ pingLock[Top(t).h] = NoThread
    /\ pingLock' = [pingLock EXCEPT ![Top(t).h] = t]
    /\ Call(t, [Top(t) EXCEPT !.pc = "afterReq", !.held = "ping"],
            request_frame(Top(t).h, TRUE, Top(t).cmd))
    /\ UNCHANGED <<reconnLock, sessv, strmv, budgv, wirev, sockv>>

\* self._streams['tasks'][len(tasks)] = {...}
Registered(tk, cmd) ==
    [i \in DOMAIN tk \cup {Cardinality(DOMAIN tk)} |->
        IF i = Cardinality(DOMAIN tk) THEN cmd ELSE tk[i]]

\* if not self._request(...): return False;  register the task;
\* if not 'stream' in self._streams: start the read thread;  return True
streamData_afterReq(t) ==
    /\ At(t, "streamData", "afterReq")
    /\ UNCHANGED otherThanWire
    /\ LET f == Top(t)
           m == f.h
           r == readThread[m]
       IN  IF ret[t].val = "False"
           THEN /\ Return(t, [Result("streamData", "False") EXCEPT
                                !.att = ret[t].att, !.cb = ret[t].cb, !.tok = f.tok,
                                !.ok = FALSE, !.resp = f.cmd])
                /\ UNCHANGED <<tasks, streamFlag>>
           ELSE /\ tasks' = [tasks EXCEPT ![m] = Registered(@, f.cmd)]
                /\ ret' = [ret EXCEPT ![t] = [Result("streamData", "True") EXCEPT
                                !.att = ret[t].att, !.cb = ret[t].cb, !.tok = f.tok,
                                !.resp = f.cmd],
                                      ![r] = IF streamFlag[m] = "unset" THEN NoResult ELSE @]
                /\ IF streamFlag[m] = "unset"
                   THEN /\ streamFlag' = [streamFlag EXCEPT ![m] = "on"]
                        /\ stack' = [stack EXCEPT ![t] = PopOff(@),
                                                  ![r] = <<Frame("_readStream", "loop", m)>>]
                        /\ tstate' = [tstate EXCEPT
                                        ![t] = IF Len(stack[t]) = 1 THEN Finished(t) ELSE "run",
                                        ![r] = "run"]
                   ELSE /\ stack' = [stack EXCEPT ![t] = PopOff(@)]
                        /\ tstate' = [tstate EXCEPT
                                        ![t] = IF Len(stack[t]) = 1 THEN Finished(t) ELSE "run"]
                        /\ UNCHANGED streamFlag
    /\ pingLock' = [pingLock EXCEPT ![Top(t).h] = NoThread]
    /\ UNCHANGED <<reconnLock, sessv, attached, budgv, wirev, sockv>>

\* ------------------------------------------------------------------ _readStream
\* while self._streams['stream']: the loop ends when the flag is cleared
_readStream_exit(t) ==
    /\ At(t, "_readStream", "loop")
    /\ UNCHANGED otherThanWire
    /\ streamFlag[Top(t).h] # "on"
    /\ Return(t, NoResult)
    /\ UNCHANGED <<lockv, sessv, strmv, budgv, wirev, sockv>>

\* response=self._receive(retry=True, data=False)
_readStream_loop(t) ==
    /\ At(t, "_readStream", "loop")
    /\ UNCHANGED otherThanWire
    /\ streamFlag[Top(t).h] = "on"
    /\ Call(t, [Top(t) EXCEPT !.pc = "afterRecv"], receive_frame(Top(t).h, TRUE, FALSE))
    /\ UNCHANGED <<lockv, sessv, strmv, budgv, wirev, sockv>>

\* if not response: self.endStream(inThread=True); return False
\* if not response['data']: self.endStream(inThread=True); return False
_readStream_afterRecv(t) ==
    /\ At(t, "_readStream", "afterRecv")
    /\ UNCHANGED otherThanWire
    /\ IF ret[t].val = "data"
       THEN Goto(t, [Top(t) EXCEPT !.pc = "loop"])
       ELSE Call(t, [Top(t) EXCEPT !.pc = "afterEnd"],
                 [Frame("endStream", "begin", Top(t).h) EXCEPT !.inThread = TRUE])
    /\ UNCHANGED <<lockv, sessv, strmv, budgv, wirev, sockv>>

\* `return False` after endStream is only entered when endStream returns; it
\* leaves by an exception on every path: _readStream_tail_unreached.
_readStream_tail_unreached ==
    \A t \in Threads : ~At(t, "_readStream", "afterEnd")

\* ------------------------------------------------------------------ endStream
\* a caller calls sh.endStream() on the multiplexer the pool gave it
endStream_call(t) ==
    /\ t \in Callers
    /\ UNCHANGED otherThanWire
    /\ tstate[t] = "idle"
    /\ SH \in attached[parent(SH)]
    /\ ncalls < MaxCalls
    /\ ncalls' = ncalls + 1
    /\ stack' = [stack EXCEPT ![t] = <<Frame("endStream", "begin", SH)>>]
    /\ tstate' = [tstate EXCEPT ![t] = "run"]
    /\ ret' = [ret EXCEPT ![t] = NoResult]
    /\ UNCHANGED <<lockv, sessv, strmv, npings, faults, wirev, sockv>>

\* if not self._streams['stream']: log; else: self._streams['stream'] = False
\* (KeyError when no read loop was ever started)
endStream(t) ==
    /\ At(t, "endStream", "begin")
    /\ UNCHANGED otherThanWire
    /\ LET f == Top(t) IN
       IF streamFlag[f.h] = "unset"
       THEN /\ Raise(t, "endStream")
            /\ UNCHANGED streamFlag
       ELSE /\ Goto(t, [f EXCEPT !.pc = IF f.inThread THEN "tasks" ELSE "join"])
            /\ streamFlag' = [streamFlag EXCEPT ![f.h] = "off"]
            /\ UNCHANGED lockv
    /\ UNCHANGED <<sessv, tasks, attached, budgv, wirev, sockv>>

\* if not inThread: self._streams['thread'].join()
endStream_join(t) ==
    /\ At(t, "endStream", "join")
    /\ UNCHANGED otherThanWire
    /\ tstate[readThread[Top(t).h]] # "run"
    /\ Goto(t, [Top(t) EXCEPT !.pc = "tasks"])
    /\ UNCHANGED <<lockv, sessv, strmv, budgv, wirev, sockv>>

\* for index in self._streams['tasks']: self._request(retry = False, command='stop' + command);
\* with no task the loop body never runs and the last line reads the unbound
\* local `command` (UnboundLocalError)
endStream_tasks(t) ==
    /\ At(t, "endStream", "tasks")
    /\ UNCHANGED otherThanWire
    /\ LET f == Top(t) IN
       IF DOMAIN tasks[f.h] = {}
       THEN Raise(t, "endStream")
       ELSE /\ Call(t, [f EXCEPT !.pc = "afterStop"], request_frame(f.h, FALSE, "stop"))
            /\ UNCHANGED lockv
    /\ UNCHANGED <<sessv, strmv, budgv, wirev, sockv>>

\* self._streams['tasks'].pop(index); the next step of the for loop finds the
\* dict changed size during iteration (RuntimeError); when another endStream
\* has popped the index meanwhile, pop itself fails (KeyError)
endStream_afterStop(t) ==
    /\ At(t, "endStream", "afterStop")
    /\ UNCHANGED otherThanWire
    /\ LET tk == tasks[Top(t).h]
           first == CHOOSE i \in DOMAIN tk : \A j \in DOMAIN tk : i <= j
       IN  tasks' = IF DOMAIN tk = {} THEN tasks
                    ELSE [tasks EXCEPT ![Top(t).h] = [i \in DOMAIN tk \ {first} |-> tk[i]]]
    /\ Raise(t, "endStream")
    /\ UNCHANGED <<sessv, streamFlag, attached, budgv, wirev, sockv>>

\* ------------------------------------------------------------------ _StreamHandler._reconnect
\* mutation of SH_reconnect_tryLock: the repair starts whoever holds the lock
SH_reconnect_tryLock_forced(t) ==
    /\ At(t, "SH_reconnect", "begin")
    /\ UNCHANGED otherThanWire
    /\ LET f == Top(t)
           d == parent(f.h)
       IN  IF ~check_basic(d)
           THEN /\ reconnLock' = [reconnLock EXCEPT ![d] = t]
                /\ status' = [status EXCEPT ![f.h] = "inactive"]
                /\ Goto(t, [f EXCEPT !.pc = "a_create", !.held = "manual"])
           ELSE /\ Goto(t, [f EXCEPT !.pc = "b_lock"])
                /\ UNCHANGED <<reconnLock, status>>
    /\ UNCHANGED <<pingLock, ssid, pingFlag, strmv, budgv, wirev, sockv>>

\* if self._dh._reconnect_lock.acquire(blocking=False):
\*     if not self._dh.check('basic'): self._status='inactive'; ... else: release
\* else: another handler is already repairing the Session
SH_reconnect_tryLock(t) ==
    /\ At(t, "SH_reconnect", "begin")
    /\ UNCHANGED otherThanWire
    /\ LET f == Top(t)
           d == parent(f.h)
       IN  IF reconnLock[d] = NoThread /\ ~check_basic(d)
           THEN /\ reconnLock' = [reconnLock EXCEPT ![d] = t]
                /\ status' = [status EXCEPT ![f.h] = "inactive"]
                /\ Goto(t, [f EXCEPT !.pc = "a_create", !.held = "manual"])
           ELSE /\ Goto(t, [f EXCEPT !.pc = "b_lock"])
                /\ UNCHANGED <<reconnLock, status>>
    /\ UNCHANGED <<pingLock, ssid, pingFlag, strmv, budgv, wirev, sockv>>

\* a variant that returns on a failed create() without release()
SH_reconnect_a_create_lock_kept(t) ==
    /\ At(t, "SH_reconnect", "a_create")
    /\ UNCHANGED otherThanWire
    /\ LET f == Top(t)
           d == parent(f.h)
       IN  \E ok \in BOOLEAN :
             /\ create(d, ok)
             /\ IF ok
                THEN Call(t, [f EXCEPT !.pc = "a_afterLogin"], Frame("_login", "lock", d))
                ELSE Return(t, Result("SH_reconnect", "False"))
             /\ UNCHANGED reconnLock
    /\ UNCHANGED <<pingLock, sessv, strmv, budgv, inflight, interleaved, early>>

\* if not self._dh.create(): release; return False;  self._dh._login()
SH_reconnect_a_create(t) ==
    /\ At(t, "SH_reconnect", "a_create")
    /\ UNCHANGED otherThanWire
    /\ LET f == Top(t)
           d == parent(f.h)
       IN  \E ok \in BOOLEAN :
             /\ create(d, ok)
             /\ IF ok
                THEN /\ Call(t, [f EXCEPT !.pc = "a_afterLogin"], Frame("_login", "lock", d))
                     /\ UNCHANGED reconnLock
                ELSE /\ Return(t, Result("SH_reconnect", "False"))
                     /\ reconnLock' = [reconnLock EXCEPT ![d] = NoThread]
    /\ UNCHANGED <<pingLock, sessv, strmv, budgv, inflight, interleaved, early>>

\* if not self._dh._login(): release; return False
\* self._status='active'; self._dh._start_ping()
SH_reconnect_a_afterLogin(t) ==
    /\ At(t, "SH_reconnect", "a_afterLogin")
    /\ UNCHANGED otherThanWire
    /\ LET f == Top(t)
           d == parent(f.h)
       IN  IF ret[t].val = "False"
           THEN /\ Return(t, Result("SH_reconnect", "False"))
                /\ reconnLock' = [reconnLock EXCEPT ![d] = NoThread]
                /\ UNCHANGED status
           ELSE /\ Call(t, [f EXCEPT !.pc = "a_afterPing"], Frame("_start_ping", "begin", d))
                /\ status' = [status EXCEPT ![f.h] = "active"]
                /\ UNCHANGED reconnLock
    /\ UNCHANGED <<pingLock, ssid, pingFlag, strmv, budgv, wirev, sockv>>

\* self._dh._reconnect_lock.release()
SH_reconnect_a_done(t) ==
    /\ At(t, "SH_reconnect", "a_afterPing")
    /\ UNCHANGED otherThanWire
    /\ reconnLock' = [reconnLock EXCEPT ![parent(Top(t).h)] = NoThread]
    /\ Goto(t, [Top(t) EXCEPT !.pc = "b_lock", !.held = "none"])
    /\ UNCHANGED <<pingLock, sessv, strmv, budgv, wirev, sockv>>

\* with self._dh._reconnect_lock: if not self.check('basic'): self._status='inactive' ...
\* else: the stream connection is already active; return True
SH_reconnect_b_lock(t) ==
    /\ At(t, "SH_reconnect", "b_lock")
    /\ UNCHANGED otherThanWire
    /\ LET f == Top(t)
           d == parent(f.h)
       IN  /\ reconnLock[d] = NoThread
           /\ IF check_basic(f.h)
              THEN /\ Return(t, Result("SH_reconnect", "True"))
                   /\ UNCHANGED <<reconnLock, status>>
              ELSE /\ reconnLock' = [reconnLock EXCEPT ![d] = t]
                   /\ status' = [status EXCEPT ![f.h] = "inactive"]
                   /\ Goto(t, [f EXCEPT !.pc = "b_create", !.held = "reconn"])
    /\ UNCHANGED <<pingLock, ssid, pingFlag, strmv, budgv, wirev, sockv>>

\* if not self.create(): return False;  self.open()
SH_reconnect_b_create(t) ==
    /\ At(t, "SH_reconnect", "b_create")
    /\ UNCHANGED otherThanWire
    /\ LET f == Top(t) IN
       \E ok \in BOOLEAN :
          /\ create(f.h, ok)
          /\ IF ok
             THEN /\ Call(t, [f EXCEPT !.pc = "b_afterOpen"], Frame("open", "connect", f.h))
                  /\ UNCHANGED reconnLock
             ELSE /\ Return(t, Result("SH_reconnect", "False"))
                  /\ reconnLock' = [reconnLock EXCEPT ![parent(f.h)] = NoThread]
    /\ UNCHANGED <<pingLock, sessv, strmv, budgv, inflight, interleaved, early>>

\* if not self.open(): return False;  self._status='active'; self.streamData('KeepAlive')
SH_reconnect_b_afterOpen(t) ==
    /\ At(t, "SH_reconnect", "b_afterOpen")
    /\ UNCHANGED otherThanWire
    /\ LET f == Top(t) IN
       IF ret[t].val = "False"
       THEN /\ Return(t, Result("SH_reconnect", "False"))
            /\ reconnLock' = [reconnLock EXCEPT ![parent(f.h)] = NoThread]
            /\ UNCHANGED status
       ELSE /\ Call(t, [f EXCEPT !.pc = "b_afterKA"],
                    [Frame("streamData", "check", f.h) EXCEPT !.cmd = "KeepAlive"])
            /\ status' = [status EXCEPT ![f.h] = "active"]
            /\ UNCHANGED reconnLock
    /\ UNCHANGED <<pingLock, ssid, pingFlag, strmv, budgv, wirev, sockv>>

\* self._start_ping(ssid = self._dh._ssid)
SH_reconnect_b_afterKA(t) ==
    /\ At(t, "SH_reconnect", "b_afterKA")
    /\ UNCHANGED otherThanWire
    /\ Call(t, [Top(t) EXCEPT !.pc = "b_afterPing"],
            [Frame("_start_ping", "begin", Top(t).h) EXCEPT !.tok = ssid[parent(Top(t).h)]])
    /\ UNCHANGED <<lockv, sessv, strmv, budgv, wirev, sockv>>

\* the with block ends; return True
SH_reconnect_b_done(t) ==
    /\ At(t, "SH_reconnect", "b_afterPing")
    /\ UNCHANGED otherThanWire
    /\ Return(t, Result("SH_reconnect", "True"))
    /\ reconnLock' = [reconnLock EXCEPT ![parent(Top(t).h)] = NoThread]
    /\ UNCHANGED <<pingLock, sessv, strmv, budgv, wirev, sockv>>

\* ------------------------------------------------------------------ the machine
\* after _DataHandler.__init__: _login() has run (with or without success),
\* the keepalive thread is started; no multiplexer exists yet
WireInitOf(loginOk, s) ==
    /\ ssid = [d \in Sessions |-> IF loginOk THEN "tok" ELSE ""]
    /\ status = [h \in Handlers |->
                   IF h \in Muxes THEN "unborn" ELSE IF loginOk THEN "active" ELSE "None"]
    /\ sock = [h \in Handlers |-> IF h \in Muxes THEN "bad" ELSE s]
    /\ stack = [t \in Threads |->
                  IF t = pingThread[DH] THEN <<Frame("_send_ping", "loop", DH)>> ELSE <<>>]
    /\ tstate = [t \in Threads |->
                  IF t \in Callers THEN "idle" ELSE IF t = pingThread[DH] THEN "run" ELSE "off"]
    /\ ret = [t \in Threads |-> NoResult]
    /\ pingLock = [h \in Handlers |-> NoThread]
    /\ reconnLock = [d \in Sessions |-> NoThread]
    /\ pingFlag = [h \in Handlers |-> IF h \in Sessions THEN "on" ELSE "unset"]
    /\ tasks = [m \in Muxes |-> <<>>]
    /\ streamFlag = [m \in Muxes |-> "unset"]
    /\ attached = [d \in Sessions |-> {}]
    /\ ncalls = 0
    /\ npings = 0
    /\ faults = 0
    /\ inflight = [h \in Handlers |-> NoThread]
    /\ interleaved = FALSE
    /\ kaSent = [m \in Muxes |-> FALSE]
    /\ early = [m \in Muxes |-> {}]
    /\ repairs = [h \in Handlers |-> 0]

WireInit ==
    \E loginOk \in BOOLEAN : WireInitOf(loginOk, IF loginOk THEN "conn" ELSE "fresh")

\* the same when Client.__init__ could not resolve the host: create() returned
\* False before any socket was made, every later create() failed likewise,
\* and _login failed
WireInitUnresolved == WireInitOf(FALSE, "void")

WireStep(t) ==
    \/ _request(t)
    \/ _receive(t)
    \/ getData_call(t)
    \/ getData_check(t)
    \/ getData_lock(t)
    \/ getData_afterReq(t)
    \/ getData_afterRecv(t)
    \/ open_check(t)
    \/ open_connect(t)
    \/ _login_lock(t)
    \/ _login_afterOpen(t)
    \/ _login_afterReq(t)
    \/ _login_afterRecv(t)
    \/ DH_reconnect_lock(t)
    \/ DH_reconnect_create(t)
    \/ _start_ping(t)
    \/ _stop_ping_join(t)
    \/ _send_ping_exit(t)
    \/ _send_ping_due(t)
    \/ _send_ping_lock(t)
    \/ _send_ping_afterReq(t)
    \/ _send_ping_afterRecv(t)
    \/ SH_init_call(t)
    \/ SH_init_afterOpen(t)
    \/ SH_init_afterKA(t)
    \/ SH_init_done(t)
    \/ streamData_call(t)
    \/ streamData_check(t)
    \/ streamData_lock(t)
    \/ streamData_afterReq(t)
    \/ _readStream_exit(t)
    \/ _readStream_loop(t)
    \/ _readStream_afterRecv(t)
    \/ endStream_call(t)
    \/ endStream(t)
    \/ endStream_join(t)
    \/ endStream_tasks(t)
    \/ endStream_afterStop(t)
    \/ SH_reconnect_tryLock(t)
    \/ SH_reconnect_a_create(t)
    \/ SH_reconnect_a_afterLogin(t)
    \/ SH_reconnect_a_done(t)
    \/ SH_reconnect_b_lock(t)
    \/ SH_reconnect_b_create(t)
    \/ SH_reconnect_b_afterOpen(t)
    \/ SH_reconnect_b_afterKA(t)
    \/ SH_reconnect_b_done(t)

\* ========================================================================
\* Client: create() and close()   (src/XTB/client.py)
\* ========================================================================

\* Bounds of the model: candidates per resolution, calls on one transport.
MaxAddresses == 3
MaxClientOps == 3

\* socket addresses (address[4] of a getaddrinfo entry)
SockAddrs == {"a", "b", "c"}
\* what getaddrinfo can return: a non-empty list of entries
AddrLists == UNION {[1..n -> SockAddrs] : n \in 1..MaxAddresses}

Range(s) == {s[i] : i \in 1..Len(s)}
Last(s) == s[Len(s)]
ButLast(s) == SubSeq(s, 1, Len(s) - 1)
Least(S) == CHOOSE i \in S : \A j \in S : i <= j

ClientInit ==
    /\ _socket = "none"
    /\ _used_addresses = <<>>
    /\ avl_addresses = <<>>
    /\ tried_addresses = <<>>
    /\ attempted = <<>>
    /\ cpc = "new"
    /\ cret = [op |-> "none", val |-> "none", before |-> <<>>]
    /\ cops = 0

\* `address[4] not in tried_addresses`: tried_addresses holds whole getaddrinfo
\* entries (5-tuples), address[4] is a socket address (a 2- or 4-tuple), so
\* the test compares values of different shape and is true for every address
NotInTried(avl, tried, i) == TRUE

\* one pass of the while body up to `tried_addresses[-1]`: the list after the
\* for loop that appends the first candidate passing the tests (or nothing)
Selected(avl, used, tried) ==
    LET pass == IF Len(used) + Len(tried) < Len(avl)
                THEN {i \in 1..Len(avl) : NotInTried(avl, tried, i) /\ avl[i] \notin Range(used)}
                ELSE {i \in 1..Len(avl) : NotInTried(avl, tried, i)}
    IN  IF pass = {} THEN tried ELSE Append(tried, Least(pass))

\* socket setup of one candidate: socket.socket() fails (self._socket keeps
\* its old value), wrap_socket fails before or after it detached the raw
\* socket (self._socket is the raw socket, open or without descriptor), or
\* all of it succeeds
SetupOutcomes == {"ok", "socketFails", "wrapFails", "wrapFailsDetached"}

\* create() is called (by __init__ first): getaddrinfo fails -> return False,
\* or returns the candidates; tried_addresses = []
create_call ==
    /\ cpc \in {"new", "idle"}
    /\ UNCHANGED otherThanClient
    /\ cops < MaxClientOps
    /\ cops' = cops + 1
    /\ attempted' = <<>>
    /\ tried_addresses' = <<>>
    /\ \/ /\ cpc' = "idle"
          /\ cret' = [op |-> "create", val |-> "noinfo", before |-> _used_addresses]
          /\ UNCHANGED avl_addresses
       \/ /\ \E l \in AddrLists : avl_addresses' = l
          /\ cpc' = "loop"
          /\ UNCHANGED cret
    /\ UNCHANGED <<_socket, _used_addresses>>

\* one pass of `while len(tried_addresses) < len(avl_addresses)`: select,
\* take tried_addresses[-1] (IndexError on an empty list), socket(), wrap;
\* on success append the address to the history and return True
create_loop ==
    /\ cpc = "loop"
    /\ UNCHANGED otherThanClient
    /\ Len(tried_addresses) < Len(avl_addresses)
    /\ LET tried == Selected(avl_addresses, _used_addresses, tried_addresses) IN
       IF tried = <<>>
       THEN /\ cpc' = "raised"
            /\ cret' = [op |-> "create", val |-> "raised", before |-> _used_addresses]
            /\ UNCHANGED <<_socket, _used_addresses, tried_addresses, attempted>>
       ELSE /\ attempted' = Append(attempted, Last(tried))
            /\ \E outcome \in SetupOutcomes :
                 /\ _socket' = CASE outcome = "socketFails" -> _socket
                                  [] outcome = "wrapFailsDetached" -> "closed"
                                  [] OTHER -> "open"
                 /\ IF outcome = "ok"
                    THEN /\ _used_addresses' = Append(_used_addresses, avl_addresses[Last(tried)])
                         /\ cpc' = "idle"
                         /\ cret' = [op |-> "create", val |-> "True", before |-> _used_addresses]
                         /\ tried_addresses' = tried
                    ELSE /\ tried_addresses' = tried
                         /\ UNCHANGED <<_used_addresses, cpc, cret>>
    /\ UNCHANGED <<avl_addresses, cops>>

\* create() that leaves the history as it is when every pass failed
create_exhausted_history_kept ==
    /\ cpc = "loop"
    /\ UNCHANGED otherThanClient
    /\ Len(tried_addresses) >= Len(avl_addresses)
    /\ cpc' = "idle"
    /\ cret' = [op |-> "create", val |-> "False", before |-> _used_addresses]
    /\ UNCHANGED <<_socket, _used_addresses, avl_addresses, tried_addresses, attempted, cops>>

\* the while loop is over: self._used_addresses=[]; return False
create_exhausted ==
    /\ cpc = "loop"
    /\ UNCHANGED otherThanClient
    /\ Len(tried_addresses) >= Len(avl_addresses)
    /\ _used_addresses' = <<>>
    /\ cpc' = "idle"
    /\ cret' = [op |-> "create", val |-> "False", before |-> _used_addresses]
    /\ UNCHANGED <<_socket, avl_addresses, tried_addresses, attempted, cops>>

\* close() that drops the oldest entry of the history instead of the newest
close_oldest_dropped ==
    /\ cpc = "idle"
    /\ UNCHANGED otherThanClient
    /\ cops < MaxClientOps
    /\ cops' = cops + 1
    /\ IF _socket = "none"
       THEN /\ cpc' = "raised"
            /\ cret' = [op |-> "close", val |-> "raised", before |-> _used_addresses]
            /\ UNCHANGED <<_socket, _used_addresses>>
       ELSE IF _socket = "open"
       THEN /\ _socket' = "closed"
            /\ IF _used_addresses = <<>>
               THEN /\ cpc' = "raised"
                    /\ cret' = [op |-> "close", val |-> "raised", before |-> _used_addresses]
                    /\ UNCHANGED _used_addresses
               ELSE /\ _used_addresses' = Tail(_used_addresses)
                    /\ cret' = [op |-> "close", val |-> "True", before |-> _used_addresses]
                    /\ UNCHANGED cpc
       ELSE /\ cret' = [op |-> "close", val |-> "True", before |-> _used_addresses]
            /\ UNCHANGED <<_socket, _used_addresses, cpc>>
    /\ UNCHANGED <<avl_addresses, tried_addresses, attempted>>

\* close(): if self._socket.fileno() != -1: shutdown (errors logged);
\* finally: self._socket.close(); self._used_addresses.pop(); return True
\* else: return True.   AttributeError when _socket was never assigned,
\* IndexError when the history is empty
close ==
    /\ cpc = "idle"
    /\ UNCHANGED otherThanClient
    /\ cops < MaxClientOps
    /\ cops' = cops + 1
    /\ IF _socket = "none"
       THEN /\ cpc' = "raised"
            /\ cret' = [op |-> "close", val |-> "raised", before |-> _used_addresses]
            /\ UNCHANGED <<_socket, _used_addresses>>
       ELSE IF _socket = "open"
       THEN /\ _socket' = "closed"
            /\ IF _used_addresses = <<>>
               THEN /\ cpc' = "raised"
                    /\ cret' = [op |-> "close", val |-> "raised", before |-> _used_addresses]
                    /\ UNCHANGED _used_addresses
               ELSE /\ _used_addresses' = ButLast(_used_addresses)
                    /\ cret' = [op |-> "close", val |-> "True", before |-> _used_addresses]
                    /\ UNCHANGED cpc
       ELSE /\ cret' = [op |-> "close", val |-> "True", before |-> _used_addresses]
            /\ UNCHANGED <<_socket, _used_addresses, cpc>>
    /\ UNCHANGED <<avl_addresses, tried_addresses, attempted>>

ClientNext ==
    \/ create_call
    \/ create_loop
    \/ create_exhausted
    \/ close

\* ========================================================================
\* Client: open() and receive()   (src/XTB/client.py)
\* ========================================================================

\* Bounds of the model: calls on one transport, characters of one server
\* message, the largest max_fails, and the size of one recv.
MaxTransportOps == 3
MaxText == 2
MaxMaxFails == 2
MaxBytesIn == 2

\* The characters the server's text is made of: "A" (one byte in UTF-8) and
\* "L" for a letter outside ASCII (two bytes, e.g. U+0142 = C5 82).
Chars == {"A", "L"}
Texts == UNION {[1..n -> Chars] : n \in 0..MaxText}

\* str.encode("utf-8") on the server's side
RECURSIVE encode(_)
encode(text) ==
    IF text = <<>> THEN <<>>
    ELSE (IF Head(text) = "A" THEN <<65>> ELSE <<197, 130>>) \o encode(Tail(text))

\* bytes.decode("utf-8") succeeds on whole characters only: a lead byte
\* without its continuation byte, or a continuation byte alone, raises
\* UnicodeDecodeError
RECURSIVE Decodable(_)
Decodable(b) ==
    IF b = <<>> THEN TRUE
    ELSE IF b[1] = 65 THEN Decodable(Tail(b))
    ELSE IF b[1] = 197 THEN Len(b) >= 2 /\ b[2] = 130 /\ Decodable(Tail(Tail(b)))
    ELSE FALSE
RECURSIVE decode(_)
decode(b) ==
    IF b = <<>> THEN <<>>
    ELSE IF b[1] = 65 THEN <<"A">> \o decode(Tail(b))
    ELSE <<"L">> \o decode(Tail(Tail(b)))

NoCall ==
    [op |-> "none", kind |-> "none", val |-> <<>>, attempts |-> 0,
     healthy |-> TRUE, created |-> FALSE, last |-> "none"]

TransportInit ==
    /\ _stream = FALSE
    /\ _max_fails = 0
    /\ xsock = "bad"
    /\ xpc = "new"
    /\ xattempts = 0
    /\ full_msg = <<>>
    /\ pending = <<>>
    /\ taken = <<>>
    /\ xret = NoCall
    /\ xops = 0

\* Client.__init__: self._max_fails = max_fails; self._stream = stream;
\* self.create() made a socket or did not
Client_init ==
    /\ xpc = "new"
    /\ UNCHANGED otherThanTransport
    /\ \E s \in BOOLEAN : _stream' = s
    /\ \E n \in 0..MaxMaxFails : _max_fails' = n
    /\ \E made \in BOOLEAN : xsock' = IF made THEN "fresh" ELSE "bad"
    /\ xpc' = "idle"
    /\ UNCHANGED <<xattempts, full_msg, pending, taken, xret, xops>>

\* the socket is lost: check('basic') fails from now on
SocketBreaks ==
    /\ xpc = "idle"
    /\ UNCHANGED otherThanTransport
    /\ xsock # "bad"
    /\ xsock' = "bad"
    /\ pending' = <<>>
    /\ UNCHANGED <<_stream, _max_fails, xpc, xattempts, full_msg, taken, xret, xops>>

\* open(): if not self.check(mode='basic'): if not self.create(): return False
Client_open_call ==
    /\ xpc = "idle"
    /\ UNCHANGED otherThanTransport
    /\ xops < MaxTransportOps
    /\ xops' = xops + 1
    /\ xattempts' = 0
    /\ IF xsock # "bad"
       THEN /\ xpc' = "open"
            /\ xret' = [NoCall EXCEPT !.op = "open", !.kind = "pending"]
            /\ UNCHANGED xsock
       ELSE \E made \in BOOLEAN :
              IF made
              THEN /\ xsock' = "fresh"
                   /\ xpc' = "open"
                   /\ xret' = [NoCall EXCEPT !.op = "open", !.kind = "pending",
                                             !.healthy = FALSE, !.created = TRUE]
              ELSE /\ xret' = [NoCall EXCEPT !.op = "open", !.kind = "False",
                                             !.healthy = FALSE, !.created = TRUE,
                                             !.last = "createFailed"]
                   /\ UNCHANGED <<xsock, xpc>>
    /\ UNCHANGED <<_stream, _max_fails, full_msg, pending, taken>>

\* open() that tries once more after max_fails failures
Client_open_connect_once_more ==
    /\ xpc = "open"
    /\ UNCHANGED otherThanTransport
    /\ xattempts <= _max_fails
    /\ xattempts' = xattempts + 1
    /\ \E ok \in (IF xsock = "fresh" THEN BOOLEAN ELSE {FALSE}) :
         IF ok
         THEN /\ xsock' = "conn"
              /\ xpc' = "idle"
              /\ xret' = [xret EXCEPT !.kind = "True", !.attempts = xattempts + 1,
                                      !.last = "connected"]
         ELSE /\ xret' = [xret EXCEPT !.attempts = xattempts + 1, !.last = "refused"]
              /\ UNCHANGED <<xsock, xpc>>
    /\ UNCHANGED <<_stream, _max_fails, full_msg, pending, taken, xops>>

\* one pass of `for _ in range(self._max_fails)`: connect; on socket.error
\* sleep and continue, else return True.  connect on a socket that is
\* connected already fails (EISCONN)
Client_open_connect ==
    /\ xpc = "open"
    /\ UNCHANGED otherThanTransport
    /\ xattempts < _max_fails
    /\ xattempts' = xattempts + 1
    /\ \E ok \in (IF xsock = "fresh" THEN BOOLEAN ELSE {FALSE}) :
         IF ok
         THEN /\ xsock' = "conn"
              /\ xpc' = "idle"
              /\ xret' = [xret EXCEPT !.kind = "True", !.attempts = xattempts + 1,
                                      !.last = "connected"]
         ELSE /\ xret' = [xret EXCEPT !.attempts = xattempts + 1, !.last = "refused"]
              /\ UNCHANGED <<xsock, xpc>>
    /\ UNCHANGED <<_stream, _max_fails, full_msg, pending, taken, xops>>

\* the for loop is over: return False
Client_open_exhausted ==
    /\ xpc = "open"
    /\ UNCHANGED otherThanTransport
    /\ xattempts >= _max_fails
    /\ xpc' = "idle"
    /\ xret' = [xret EXCEPT !.kind = "False"]
    /\ UNCHANGED <<_stream, _max_fails, xsock, xattempts, full_msg, pending, taken, xops>>

\* receive() is called on a connected transport: full_msg = ''; the server
\* has sent a text (or nothing)
Client_receive_call ==
    /\ xpc = "idle"
    /\ UNCHANGED otherThanTransport
    /\ xsock = "conn"
    /\ xops < MaxTransportOps
    /\ xops' = xops + 1
    /\ \E text \in Texts : pending' = encode(text)
    /\ full_msg' = <<>>
    /\ taken' = <<>>
    /\ xpc' = "receive"
    /\ xret' = [NoCall EXCEPT !.op = "receive", !.kind = "pending"]
    /\ UNCHANGED <<_stream, _max_fails, xsock, xattempts>>

\* one pass of `while True`: msg = ''; if check('readable'): msg = recv(bytes_in)
\* (an exception: return False); if len(msg) > 0: full_msg += msg.decode("utf-8");
\* break in streaming mode when bytes came, otherwise when none came; sleep.
\* n = 0: nothing to read at this poll
Client_receive_poll ==
    /\ xpc = "receive"
    /\ UNCHANGED otherThanTransport
    /\ \E raises \in BOOLEAN : \E n \in 0..MaxBytesIn :
         /\ raises => n = 0
         /\ n <= Len(pending)
         /\ LET msg == IF n > 0 THEN SubSeq(pending, 1, n) ELSE <<>>
                rest == IF n > 0 THEN SubSeq(pending, n + 1, Len(pending)) ELSE pending
            IN  IF raises
                THEN /\ xpc' = "idle"
                     /\ xret' = [xret EXCEPT !.kind = "False", !.last = "error"]
                     /\ UNCHANGED <<full_msg, pending, taken>>
                ELSE IF n > 0 /\ ~Decodable(msg)
                THEN /\ xpc' = "raised"
                     /\ xret' = [xret EXCEPT !.kind = "raised", !.last = "bytes"]
                     /\ pending' = rest
                     /\ taken' = Append(taken, msg)
                     /\ UNCHANGED full_msg
                ELSE /\ full_msg' = full_msg \o decode(msg)
                     /\ pending' = rest
                     /\ taken' = IF n > 0 THEN Append(taken, msg) ELSE taken
                     /\ IF (_stream /\ n > 0) \/ (~_stream /\ n = 0)
                        THEN /\ xpc' = "idle"
                             /\ xret' = [xret EXCEPT !.kind = "value",
                                            !.val = full_msg \o decode(msg),
                                            !.last = IF n > 0 THEN "bytes" ELSE "nothing"]
                        ELSE /\ xret' = [xret EXCEPT !.last = IF n > 0 THEN "bytes" ELSE "nothing"]
                             /\ UNCHANGED xpc
    /\ UNCHANGED <<_stream, _max_fails, xsock, xattempts, xops>>

TransportNext ==
    \/ Client_init
    \/ SocketBreaks
    \/ Client_open_call
    \/ Client_open_connect
    \/ Client_open_exhausted
    \/ Client_receive_call
    \/ Client_receive_poll

\* ========================================================================
\* Client: send()   (src/XTB/client.py)
\* ========================================================================

\* Bounds of the model: send() calls on one transport; self._bytes_out.
MaxSends == 2
MaxBytesOut == 2

SendInit ==
    /\ spc = "idle"
    /\ send_buf = <<>>
    /\ send_msg = 0
    /\ written = <<>>
    /\ delivered = <<>>
    /\ sret = "none"
    /\ sops = 0

\* send(msg): msg = msg.encode("utf-8"); send_msg = 0
Client_send_call ==
    /\ spc = "idle"
    /\ UNCHANGED otherThanSend
    /\ sops < MaxSends
    /\ sops' = sops + 1
    /\ \E text \in Texts : send_buf' = encode(text)
    /\ send_msg' = 0
    /\ written' = <<>>
    /\ delivered' = <<>>
    /\ spc' = "send"
    /\ sret' = "pending"

\* send() that counts a whole package as sent after a partial write
Client_send_write_package_counted ==
    /\ spc = "send"
    /\ UNCHANGED otherThanSend
    /\ IF send_msg >= Len(send_buf)
       THEN /\ spc' = "idle"
            /\ sret' = "True"
            /\ UNCHANGED <<send_msg, written>>
       ELSE LET left == Len(send_buf) - send_msg
                package_size == IF MaxBytesOut < left THEN MaxBytesOut ELSE left
            IN  \E writable \in BOOLEAN : \E raises \in BOOLEAN : \E n \in 0..package_size :
                  IF ~writable \/ raises
                  THEN /\ n = 0
                       /\ spc' = "idle"
                       /\ sret' = IF writable THEN "FalseRaised" ELSE "FalseNotWritable"
                       /\ UNCHANGED <<send_msg, written>>
                  ELSE /\ written' = written \o SubSeq(send_buf, send_msg + 1, send_msg + n)
                       /\ send_msg' = send_msg + package_size
                       /\ UNCHANGED <<spc, sret>>
    /\ UNCHANGED <<send_buf, delivered, sops>>

\* one test of `while send_msg < len(msg)` and one pass of the body:
\* package_size = min(self._bytes_out, len(msg) - send_msg);
\* if self.check(mode='writable'): send_msg += self._socket.send(msg[send_msg:send_msg + package_size])
\* else: return False;  except Exception: return False;  after the loop: return True.
\* socket.send() returns how many bytes of the package it took (n)
Client_send_write ==
    /\ spc = "send"
    /\ UNCHANGED otherThanSend
    /\ IF send_msg >= Len(send_buf)
       THEN /\ spc' = "idle"
            /\ sret' = "True"
            /\ UNCHANGED <<send_msg, written>>
       ELSE LET left == Len(send_buf) - send_msg
                package_size == IF MaxBytesOut < left THEN MaxBytesOut ELSE left
            IN  \E writable \in BOOLEAN : \E raises \in BOOLEAN : \E n \in 0..package_size :
                  IF ~writable \/ raises
                  THEN /\ n = 0
                       /\ spc' = "idle"
                       /\ sret' = IF writable THEN "FalseRaised" ELSE "FalseNotWritable"
                       /\ UNCHANGED <<send_msg, written>>
                  ELSE /\ written' = written \o SubSeq(send_buf, send_msg + 1, send_msg + n)
                       /\ send_msg' = send_msg + n
                       /\ UNCHANGED <<spc, sret>>
    /\ UNCHANGED <<send_buf, delivered, sops>>

\* the peer reads what has been written, at most MaxBytesIn bytes at a time
Peer_reads ==
    /\ Len(delivered) < Len(written)
    /\ UNCHANGED otherThanSend
    /\ \E n \in 1..MaxBytesIn :
         /\ Len(delivered) + n <= Len(written)
         /\ delivered' = delivered \o SubSeq(written, Len(delivered) + 1, Len(delivered) + n)
    /\ UNCHANGED <<spc, send_buf, send_msg, written, sret, sops>>

SendNext ==
    \/ Client_send_call
    \/ Client_send_write
    \/ Peer_reads

vars == <<poolvars, wirevars, clientvars, downvars, transportvars, sendvars>>

DownInit ==
    /\ hm_deleted = FALSE
    /\ deleted = [h \in Handlers |-> FALSE]
    /\ ndeletes = 0

Init == PoolInit /\ WireInit /\ ClientInit /\ DownInit /\ TransportInit /\ SendInit

Next ==
    \/ \E t \in Threads : WireStep(t)
    \/ \E h \in Handlers : SocketFault(h)
Spec == Init /\ [][Next]_vars

\* several caller threads on one HandlerManager (tests/test_stream_multi.py)
PoolNext == \E t \in PoolThreads : PoolStep(t)
PoolSpec == Init /\ [][PoolNext]_vars

\* one caller: a sequence of calls
PoolSeqNext == PoolStep("u1")
PoolSeqSpec == Init /\ [][PoolSeqNext]_vars

\* one caller whose calls include HandlerManager.delete (tests/test_chart_history.py)
ManagerNext ==
    \/ PoolStep("u1")
    \/ HandlerManager_delete("u1")
ManagerSpec == Init /\ [][ManagerNext]_vars

\* ========================================================================
\* Teardown: delete(), _close_stream_handlers, _stop_ping, _logout
\* ========================================================================

\* Bound of the model: delete() calls made by the callers together.
MaxDeletes == 2

\* a caller calls dh.delete()
DH_delete_call(t) ==
    /\ t \in Callers
    /\ UNCHANGED otherThanDown
    /\ tstate[t] = "idle"
    /\ ndeletes < MaxDeletes
    /\ ndeletes' = ndeletes + 1
    /\ stack' = [stack EXCEPT ![t] = <<Frame("DH_delete", "begin", DH)>>]
    /\ tstate' = [tstate EXCEPT ![t] = "run"]
    /\ ret' = [ret EXCEPT ![t] = NoResult]
    /\ UNCHANGED <<lockv, sessv, strmv, budgv, wirev, sockv, deleted>>

\* a caller calls sh.delete() on a multiplexer that was constructed
SH_delete_call(t) ==
    /\ t \in Callers
    /\ UNCHANGED otherThanDown
    /\ tstate[t] = "idle"
    /\ SH \in attached[parent(SH)]
    /\ ndeletes < MaxDeletes
    /\ ndeletes' = ndeletes + 1
    /\ stack' = [stack EXCEPT ![t] = <<Frame("SH_delete", "begin", SH)>>]
    /\ tstate' = [tstate EXCEPT ![t] = "run"]
    /\ ret' = [ret EXCEPT ![t] = NoResult]
    /\ UNCHANGED <<lockv, sessv, strmv, budgv, wirev, sockv, deleted>>

\* _DataHandler.delete: if self._deleted: return True; self._close_stream_handlers()
DH_delete(t) ==
    /\ At(t, "DH_delete", "begin")
    /\ UNCHANGED otherThanDown
    /\ IF deleted[DH]
       THEN Return(t, Result("DH_delete", "True"))
       ELSE Goto(t, [Top(t) EXCEPT !.pc = "close_streams"])
    /\ UNCHANGED <<lockv, sessv, strmv, budgv, wirev, sockv, deleted, ndeletes>>

\* if not self._stream_handlers: return True
\* for handler in list(self._stream_handlers): if not handler.delete(): log
_close_stream_handlers(t) ==
    /\ At(t, "DH_delete", "close_streams")
    /\ UNCHANGED otherThanDown
    /\ IF attached[DH] = {}
       THEN Goto(t, [Top(t) EXCEPT !.pc = "stop_ping"])
       ELSE \E m \in attached[DH] :
              Call(t, [Top(t) EXCEPT !.pc = "afterStreams"], Frame("SH_delete", "begin", m))
    /\ UNCHANGED <<lockv, sessv, strmv, budgv, wirev, sockv, deleted, ndeletes>>

\* _StreamHandler.delete: if self._deleted: return True
\* for index in list(self._streams): self.endStream(index) - the index (the
\* key 'tasks' first) arrives as inThread, which makes it true
SH_delete(t) ==
    /\ At(t, "SH_delete", "begin")
    /\ UNCHANGED otherThanDown
    /\ IF deleted[Top(t).h]
       THEN Return(t, Result("SH_delete", "True"))
       ELSE Call(t, [Top(t) EXCEPT !.pc = "afterEnd"],
                 [Frame("endStream", "begin", Top(t).h) EXCEPT !.inThread = TRUE])
    /\ UNCHANGED <<lockv, sessv, strmv, budgv, wirev, sockv, deleted, ndeletes>>

\* The rest of _StreamHandler.delete (self._stop_ping(); self.close();
\* self._status='inactive'; self._dh._detach_stream_handler(self);
\* self._deleted = True; return True) and the rest of _close_stream_handlers
\* are only entered when endStream returns; it leaves by an exception on every
\* path, so no thread is ever there: SH_delete_tail_unreached.
SH_delete_tail_unreached ==
    \A t \in Threads : ~At(t, "SH_delete", "afterEnd") /\ ~At(t, "DH_delete", "afterStreams")

\* self._stop_ping()
DH_delete_stop_ping(t) ==
    /\ At(t, "DH_delete", "stop_ping")
    /\ UNCHANGED otherThanDown
    /\ Call(t, [Top(t) EXCEPT !.pc = "logout"], Frame("_stop_ping", "begin", Top(t).h))
    /\ UNCHANGED <<lockv, sessv, strmv, budgv, wirev, sockv, deleted, ndeletes>>

\* if not 'ping' in self._ping: return False
\* self._ping['ping'] = False; if not inThread: self._ping['thread'].join()
_stop_ping(t) ==
    /\ At(t, "_stop_ping", "begin")
    /\ UNCHANGED otherThanDown
    /\ LET f == Top(t) IN
       IF pingFlag[f.h] = "unset"
       THEN /\ Return(t, Result("_stop_ping", "False"))
            /\ UNCHANGED pingFlag
       ELSE /\ pingFlag' = [pingFlag EXCEPT ![f.h] = "off"]
            /\ IF f.inThread
               THEN Return(t, Result("_stop_ping", "True"))
               ELSE Goto(t, [f EXCEPT !.pc = "join"])
    /\ UNCHANGED <<lockv, ssid, status, strmv, budgv, wirev, sockv, deleted, ndeletes>>

\* self._ping['thread'].join() returns when the ping thread has ended; return True
_stop_ping_thread_join(t) ==
    /\ At(t, "_stop_ping", "join")
    /\ UNCHANGED otherThanDown
    /\ tstate[pingThread[Top(t).h]] # "run"
    /\ Return(t, Result("_stop_ping", "True"))
    /\ UNCHANGED <<lockv, sessv, strmv, budgv, wirev, sockv, deleted, ndeletes>>

\* self._logout()
DH_delete_logout(t) ==
    /\ At(t, "DH_delete", "logout")
    /\ UNCHANGED otherThanDown
    /\ Call(t, [Top(t) EXCEPT !.pc = "done"], Frame("_logout", "lock", Top(t).h))
    /\ UNCHANGED <<lockv, sessv, strmv, budgv, wirev, sockv, deleted, ndeletes>>

\* with self._ping_lock: if not self._request(retry=False, command='logout'): log
_logout_lock(t) ==
    /\ At(t, "_logout", "lock")
    /\ UNCHANGED otherThanDown
    /\ pingLock[Top(t).h] = NoThread
    /\ pingLock' = [pingLock EXCEPT ![Top(t).h] = t]
    /\ Call(t, [Top(t) EXCEPT !.pc = "afterReq", !.held = "ping"],
            request_frame(Top(t).h, FALSE, "logout"))
    /\ UNCHANGED <<reconnLock, sessv, strmv, budgv, wirev, sockv, deleted, ndeletes>>

\* response=self._receive(retry = False, data = True); if not response: log
_logout_afterReq(t) ==
    /\ At(t, "_logout", "afterReq")
    /\ UNCHANGED otherThanDown
    /\ Call(t, [Top(t) EXCEPT !.pc = "afterRecv"], receive_frame(Top(t).h, FALSE, TRUE))
    /\ UNCHANGED <<lockv, sessv, strmv, budgv, wirev, sockv, deleted, ndeletes>>

\* a variant that empties the token and leaves the status as it was
_logout_afterRecv_status_kept(t) ==
    /\ At(t, "_logout", "afterRecv")
    /\ UNCHANGED otherThanDown
    /\ LET h == Top(t).h IN
       IF sock[h] = "void"
       THEN /\ Raise(t, "_logout")
            /\ UNCHANGED <<sessv, sock>>
       ELSE /\ Return(t, Result("_logout", "True"))
            /\ pingLock' = [pingLock EXCEPT ![h] = NoThread]
            /\ sock' = [sock EXCEPT ![h] = "closed"]
            /\ ssid' = [ssid EXCEPT ![h] = ""]
            /\ UNCHANGED <<reconnLock, pingFlag, status>>
    /\ UNCHANGED <<strmv, budgv, wirev, repairs, deleted, ndeletes>>

\* if not self.close(): log;  self._ssid=None; self._status='inactive'; return True
\* close(): AttributeError when self._socket was never assigned; otherwise the
\* socket is closed (a closed one stays so) and True comes back
_logout_afterRecv(t) ==
    /\ At(t, "_logout", "afterRecv")
    /\ UNCHANGED otherThanDown
    /\ LET h == Top(t).h IN
       IF sock[h] = "void"
       THEN /\ Raise(t, "_logout")
            /\ UNCHANGED <<sessv, sock>>
       ELSE /\ Return(t, Result("_logout", "True"))
            /\ pingLock' = [pingLock EXCEPT ![h] = NoThread]
            /\ sock' = [sock EXCEPT ![h] = "closed"]
            /\ ssid' = [ssid EXCEPT ![h] = ""]
            /\ status' = [status EXCEPT ![h] = "inactive"]
            /\ UNCHANGED <<reconnLock, pingFlag>>
    /\ UNCHANGED <<strmv, budgv, wirev, repairs, deleted, ndeletes>>

\* self._deleted = True; return True
DH_delete_done(t) ==
    /\ At(t, "DH_delete", "done")
    /\ UNCHANGED otherThanDown
    /\ deleted' = [deleted EXCEPT ![Top(t).h] = TRUE]
    /\ Return(t, Result("DH_delete", "True"))
    /\ UNCHANGED <<lockv, sessv, strmv, budgv, wirev, sockv, ndeletes>>

DownStep(t) ==
    \/ DH_delete_call(t)
    \/ SH_delete_call(t)
    \/ DH_delete(t)
    \/ _close_stream_handlers(t)
    \/ SH_delete(t)
    \/ DH_delete_stop_ping(t)
    \/ _stop_ping(t)
    \/ _stop_ping_thread_join(t)
    \/ DH_delete_logout(t)
    \/ _logout_lock(t)
    \/ _logout_afterReq(t)
    \/ _logout_afterRecv(t)
    \/ DH_delete_done(t)

\* one caller ("t1") and the handlers' threads, the caller's calls including delete()
TeardownInit ==
    /\ PoolInit /\ ClientInit /\ DownInit /\ TransportInit /\ SendInit
    /\ (WireInit \/ WireInitUnresolved)
TeardownNext ==
    \/ \E t \in Threads \ {"t2"} : WireStep(t)
    \/ \E h \in Handlers : SocketFault(h)
    \/ \E t \in Threads \ {"t2"} : DownStep(t)
TeardownSpec == TeardownInit /\ [][TeardownNext]_vars

\* Client.receive on a streaming socket (self._stream) polls until a chunk
\* has arrived: a thread inside it goes on only when the server sends or the
\* socket breaks
AwaitsServer(t) == At(t, "_receive", "recv") /\ Top(t).h \in Muxes

\* the scheduler lets every thread run that can take a step by itself
FairTeardownSpec ==
    /\ TeardownSpec
    /\ \A t \in Threads \ {"t2"} :
          WF_vars(~AwaitsServer(t) /\ (WireStep(t) \/ DownStep(t)))

\* one transport: the constructor, then create() and close() calls
ClientSpec == Init /\ [][ClientNext]_vars

\* one transport: the constructor, then open() and receive() calls
TransportSpec == Init /\ [][TransportNext]_vars

\* one transport: send() calls and a peer that reads
SendSpec == Init /\ [][SendNext]_vars

\* ========================================================================
\* Properties of the HandlerManager
\* ========================================================================

\* C1: after any sequence of provide_DataHandler / provide_StreamHandler calls
\* the connection count (allocated Sessions plus allocated multiplexers) never
\* exceeds MAX_CONNECTIONS, also when one provide_StreamHandler call allocates
\* both a Session and a multiplexer.
C1_ConnectionsWithinBudget ==
    /\ connections <= MAX_CONNECTIONS
    /\ Len(dataReg) + Len(streamReg) <= MAX_CONNECTIONS

\* C9: the number of registered subscriptions of every multiplexer never
\* exceeds floor(1000 / SEND_INTERVAL), for callers that obtain the multiplexer
\* from the pool and then call streamData, in any interleaving.
C9_SubscriptionsWithinCap ==
    \A i \in 1..Len(streamReg) : Len(streamReg[i].tasks) <= max_streams

\* ========================================================================
\* Properties of one Session and one StreamMultiplexer
\* ========================================================================

\* t is inside the `with self._ping_lock` block of getData, streamData or
\* _send_ping on handler h
InExchange(t, h) ==
    \E i \in 1..Len(stack[t]) :
        /\ stack[t][i].proc \in {"getData", "streamData", "_send_ping"}
        /\ stack[t][i].h = h
        /\ stack[t][i].held = "ping"

\* C2: concurrent getData calls on the Session (streamData calls on the
\* multiplexer) never interleave on the wire: no getData/streamData/ping uses
\* a handler's socket between another one's request and its response, and at
\* most one thread at a time is inside such an exchange on a handler.
C2_NoInterleaving ==
    /\ ~interleaved
    /\ \A h \in Handlers : \A t, u \in Threads :
          InExchange(t, h) /\ InExchange(u, h) => t = u

\* two getData calls at once: one has its request out, the other waits
C2_Witness ==
    \E t, u \in Callers :
        /\ t # u
        /\ inflight[DH] = t
        /\ At(u, "getData", "lock")

\* C3: every send and every receive on a handler's socket is made by a thread
\* that holds the handler's ping lock.
C3_WireUnderPingLock ==
    \A t \in Threads :
        (At(t, "_request", "send") \/ At(t, "_receive", "recv"))
            => pingLock[Top(t).h] = t

\* C4: a getData call that finds the socket unhealthy reconnects, re-logs in
\* and returns: it is never left waiting for a lock that it holds itself.
C4_GetDataNotSelfBlocked ==
    \A t \in Callers :
        ~ /\ stack[t] # <<>>
          /\ stack[t][1].proc = "getData"
          /\ At(t, "_login", "lock")
          /\ pingLock[DH] = t

\* one call of _request or _receive, running (a frame) or returned (a result)
IsAttempt(r) == r.proc \in {"_request", "_receive"}
RetryCounts ==
    /\ \A t \in Threads : \A i \in 1..Len(stack[t]) :
          LET f == stack[t][i] IN
          IsAttempt(f) =>
             /\ f.att = f.cb
             /\ f.cb <= 1
             /\ f.retry => f.cb = 0
             /\ ~f.retry0 => f.cb = 0
    /\ \A t \in Threads :
          LET r == ret[t] IN
          IsAttempt(r) =>
             /\ r.cb <= 1
             /\ r.att = r.cb + 1
             /\ ~r.retry0 => r.cb = 0

\* C5 as stated: the reconnect callback runs at most once (never without
\* retry), the second attempt comes only after it, and the call returns False
\* iff the last attempt failed at transport level.
C5_FalseIffTransport ==
    /\ RetryCounts
    /\ \A t \in Threads :
          IsAttempt(ret[t]) => ((ret[t].val = "False") <=> ~ret[t].ok)

\* C5 amended: the same counts; the call returns False iff the last attempt
\* failed at transport level or, for _receive with data=True, the response
\* has no status field or a false status.
C5_RetryOnce ==
    /\ RetryCounts
    /\ \A t \in Threads :
          LET r == ret[t] IN
          IsAttempt(r) =>
             ((r.val = "False") <=>
                 (~r.ok \/ (r.data /\ r.resp \in {"statusFalse", "noStatus"})))

\* a call with retry that failed, ran the callback, and then succeeded
C5_Witness ==
    \E t \in Threads :
        /\ IsAttempt(ret[t])
        /\ ret[t].retry0
        /\ ret[t].cb = 1
        /\ ret[t].att = 2
        /\ ret[t].val # "False"

\* C6: a response with status false makes _receive return False in that very
\* step, without calling the reconnect callback, and getData return False;
\* neither step changes the Session's status, token or socket.
C6_StatusFalseNoReconnect ==
    [][\A t \in Callers :
        /\ ( /\ At(t, "_receive", "recv")
             /\ Ctx(t).proc = "getData"
             /\ ret'[t].proc = "_receive"
             /\ ret'[t].resp = "statusFalse" )
           => /\ ret'[t].val = "False"
              /\ ret'[t].cb = Top(t).cb
              /\ stack'[t] = PopOff(stack[t])
              /\ UNCHANGED <<ssid, status, sock, repairs>>
        /\ ( /\ At(t, "getData", "afterRecv")
             /\ ret[t].resp = "statusFalse"
             /\ stack'[t] # stack[t] )
           => /\ ret'[t].proc = "getData"
              /\ ret'[t].val = "False"
              /\ UNCHANGED <<ssid, status, sock, repairs>>
      ]_vars

\* getData returned False on a status-false answer, no callback in the call
C6_Witness ==
    \E t \in Callers :
        /\ tstate[t] = "idle"
        /\ ret[t].proc = "getData"
        /\ ret[t].resp = "statusFalse"
        /\ ret[t].val = "False"
        /\ ret[t].cb = 0
        /\ status[DH] = "active"

\* t is repairing the Session: between create and the end of the repair
RepairsSession(t) ==
    \E i \in 1..Len(stack[t]) :
        \/ stack[t][i].proc = "DH_reconnect" /\ stack[t][i].pc \in {"create", "afterLogin"}
        \/ stack[t][i].proc = "SH_reconnect"
              /\ stack[t][i].pc \in {"a_create", "a_afterLogin", "a_afterPing"}

\* C7 as stated, second half of the first sentence: a multiplexer's _reconnect
\* never waits for the Session's reconnect lock while another thread holds it.
C7_NeverWaitsForSessionLock ==
    \A t \in Threads :
        ~(At(t, "SH_reconnect", "b_lock") /\ reconnLock[DH] \notin {NoThread, t})

\* C7 amended: while a thread holds the Session's reconnect lock, a
\* multiplexer's _reconnect started by another thread leaves the Session
\* alone and goes on, in that step, to wait for its own turn; only the lock
\* holder repairs the Session, and the Session's socket is created at most
\* once per outage.
C7_SingleRepair ==
    /\ [](\A t \in Threads : RepairsSession(t) => reconnLock[DH] = t)
    /\ [](repairs[DH] <= 1)
    /\ [][\A t \in Threads :
            ( /\ At(t, "SH_reconnect", "begin")
              /\ reconnLock[DH] # NoThread
              /\ stack'[t] # stack[t] )
            => /\ stack'[t] = SetTop(stack[t], [Top(t) EXCEPT !.pc = "b_lock"])
               /\ UNCHANGED <<reconnLock, sock, repairs, ssid, status>>
       ]_vars

\* the Session is being repaired by the lock holder and another thread's
\* multiplexer _reconnect has skipped the repair
C7_Witness ==
    \E t, u \in Threads :
        /\ t # u
        /\ reconnLock[DH] = u
        /\ RepairsSession(u)
        /\ repairs[DH] = 1
        /\ At(t, "SH_reconnect", "b_lock")

\* C8: on every multiplexer socket no streamData request for another command
\* is sent before a KeepAlive subscription was sent on that socket.
C8_KeepAliveFirst ==
    \A m \in Muxes : early[m] = {}

\* C10: with an empty token getData and streamData return False in the step
\* that reads the token: nothing was sent, nothing is registered, no
\* reconnect callback was called, no lock taken.
C10_NoTokenNoTraffic ==
    /\ [](\A t \in Threads :
            (ret[t].proc \in {"getData", "streamData"} /\ ret[t].tok = "")
               => /\ ret[t].val = "False"
                  /\ ret[t].att = 0
                  /\ ret[t].cb = 0)
    /\ [][\A t \in Threads :
            ( /\ At(t, "getData", "check") \/ At(t, "streamData", "check")
              /\ ssid[DH] = ""
              /\ stack'[t] # stack[t] )
            => /\ stack'[t] = PopOff(stack[t])
               /\ ret'[t].proc = Top(t).proc
               /\ ret'[t].val = "False"
               /\ ret'[t].tok = ""
               /\ UNCHANGED <<tasks, streamFlag, inflight, kaSent, early, sock,
                              repairs, pingLock, reconnLock, faults>>
       ]_vars

\* getData has returned False for want of a token, and so has the KeepAlive
\* subscription of a multiplexer under construction
C10_Witness ==
    \E t, u \in Callers :
        /\ ssid[DH] = ""
        /\ tstate[t] = "idle"
        /\ ret[t].proc = "getData"
        /\ ret[t].tok = ""
        /\ ret[t].val = "False"
        /\ ret[u].proc = "streamData"
        /\ ret[u].tok = ""
        /\ ret[u].val = "False"
        /\ tasks[SH] = <<>>


\* ========================================================================
\* Properties of the Client transport
\* ========================================================================

\* C11: one call of create() attempts each candidate at most once, and when
\* it returns False it has attempted every candidate.
C11_EachCandidateOnce ==
    /\ \A i, j \in 1..Len(attempted) : i # j => attempted[i] # attempted[j]
    /\ (cret.op = "create" /\ cret.val = "False" /\ cpc = "idle")
          => Range(attempted) = 1..Len(avl_addresses)

\* C12: while create() is trying candidates, a candidate whose address is in
\* the used-address history has been selected only when no candidate was left
\* whose address was neither in the history nor tried earlier in the call.
C12_FreshBeforeUsed ==
    cpc = "loop" =>
        \A k \in 1..Len(attempted) :
            avl_addresses[attempted[k]] \in Range(_used_addresses) =>
                ~ \E q \in 1..Len(avl_addresses) :
                      /\ avl_addresses[q] \notin Range(_used_addresses)
                      /\ \A j \in 1..(k - 1) : avl_addresses[attempted[j]] # avl_addresses[q]

\* C13: a create() call that got its candidates ends in one of two ways:
\* with True on the pass whose socket setup succeeded, the address of that
\* candidate appended to the history and nothing else in it changed, or with
\* False after the last failed pass, the history empty.
C13_ReturnAndHistory ==
    [][(cpc = "loop" /\ cpc' = "idle") =>
          \/ /\ cret'.op = "create" /\ cret'.val = "True"
             /\ Len(attempted') = Len(attempted) + 1
             /\ _socket' = "open"
             /\ _used_addresses' = Append(_used_addresses, avl_addresses[Last(attempted')])
          \/ /\ cret'.op = "create" /\ cret'.val = "False"
             /\ attempted' = attempted
             /\ Len(attempted) = Len(avl_addresses)
             /\ _used_addresses' = <<>>]_vars

\* create() returned False after failing on every pass and emptied a history
\* that held an address
C13_Witness ==
    /\ cpc = "idle"
    /\ cret.op = "create" /\ cret.val = "False"
    /\ cret.before # <<>>
    /\ attempted # <<>>
    /\ _used_addresses = <<>>

\* C14: no close() call ends by raising.
C14_CloseNeverRaises ==
    ~ (cret.op = "close" /\ cret.val = "raised")

\* ========================================================================
\* More properties of the HandlerManager
\* ========================================================================

\* C16: the step in which provide_DataHandler (provide_StreamHandler) has
\* scanned the registry hands back the first registered Session that is
\* active (the first registered multiplexer that is active and below
\* max_streams) and leaves registries and connection count as they are; it
\* goes on to allocate only when the registry holds no such handler.
C16_ProvideFirstAvailable ==
    [][\A t \in PoolThreads :
         /\ (ppc[t] = "pd_avlb" /\ ppc'[t] # "pd_avlb") =>
              LET act == {i \in 1..Len(dataReg) : dataReg[i].status = "active"} IN
              IF act # {}
              THEN /\ plocal'[t].dh \in act
                   /\ \A j \in act : plocal'[t].dh <= j
                   /\ ppc'[t] \in {"idle", "gs_new"}
                   /\ UNCHANGED <<dataReg, streamReg, connections>>
              ELSE ppc'[t] = "gd_check"
         /\ (ppc[t] = "ps_avlb" /\ ppc'[t] # "ps_avlb") =>
              LET act == {i \in 1..Len(streamReg) :
                             /\ streamReg[i].status = "active"
                             /\ Len(streamReg[i].tasks) < max_streams} IN
              IF act # {}
              THEN /\ plocal'[t].sh \in act
                   /\ \A j \in act : plocal'[t].sh <= j
                   /\ ppc'[t] = "sd"
                   /\ UNCHANGED <<dataReg, streamReg, connections>>
              ELSE ppc'[t] = "gs_check"]_vars

\* three provide_DataHandler calls have returned a Session, the registry
\* holds two, the first of them not active: a call found the second one
C16_Witness ==
    /\ Len(dataReg) = 2 /\ streamReg = <<>> /\ connections = 2
    /\ dataReg[1].status # "active" /\ dataReg[2].status = "active"
    /\ plocal["u1"].calls + plocal["u2"].calls = 3
    /\ \A t \in PoolThreads :
          ppc[t] = "idle" /\ plocal[t].ret = "handler" /\ plocal[t].dh = 2

\* C17: when HandlerManager.delete() has returned from its first call, no
\* registered Session and no registered multiplexer is active.
C17_NoActiveAfterDelete ==
    \A t \in PoolThreads :
        (ppc[t] = "idle" /\ plocal[t].ret = "deleted") =>
            /\ \A i \in 1..Len(dataReg) : dataReg[i].status # "active"
            /\ \A j \in 1..Len(streamReg) : streamReg[j].status # "active"

\* ========================================================================
\* Properties of _login
\* ========================================================================

\* C20: the step in which _login returns True follows a status-true response
\* carrying the streamSessionId and leaves the Session with that token and
\* status 'active'; when open, the send or the response failed, _login
\* returns False in its next step, having made no reconnect; until it ends,
\* no step of _login touches token or status, and when it has returned the
\* ping lock is free.
C20_LoginOutcome ==
    [][\A t \in Threads :
         ((\E i \in 1..Len(stack[t]) : stack[t][i].proc = "_login") /\ stack'[t] # stack[t]) =>
            LET h == Top(t).h
                ends == Top(t).proc = "_login" /\ ret'[t].proc = "_login"
            IN  /\ (ends /\ ret'[t].val = "True") =>
                      /\ ret[t].proc = "_receive" /\ ret[t].resp = "ok"
                      /\ ssid'[h] = "tok" /\ status'[h] = "active"
                      /\ pingLock'[h] = NoThread
                /\ (ends /\ ret'[t].val = "False") =>
                      /\ ret[t].val = "False" /\ ret[t].cb = 0
                      /\ pingLock'[h] = NoThread
                /\ (Top(t).proc = "_login" /\ Top(t).pc # "lock" /\ ret[t].val = "False") =>
                      (ends /\ ret'[t].val = "False")
                /\ ~(ends /\ ret'[t].val = "True") => UNCHANGED <<ssid, status>>
                /\ ~ends => Top(t).proc \notin {"DH_reconnect", "SH_reconnect"}]_vars

\* a _login on a Session that held a token has returned False
C20_Witness ==
    \E t \in Threads :
        /\ ret[t].proc = "_login" /\ ret[t].val = "False"
        /\ ssid[DH] = "tok"

\* ========================================================================
\* Properties of the teardown
\* ========================================================================

\* C15: no step of a delete() call on a Session or on a multiplexer ends the
\* call with an exception.
C15_DeleteNeverRaises ==
    [][\A t \in Threads :
         (stack[t] # <<>> /\ stack[t][1].proc \in {"DH_delete", "SH_delete"}) =>
            tstate'[t] # "raised"]_vars

\* C18: when a delete() call on the Session ends, no multiplexer is attached
\* to the Session, every multiplexer that was attached is deleted and
\* inactive, the Session's keepalive loop is stopped, its token is cleared
\* and its status is 'inactive'.
C18_DeleteTearsDown ==
    [][\A t \in Threads :
         (stack[t] # <<>> /\ stack[t][1].proc = "DH_delete" /\ stack'[t] = <<>>) =>
            /\ attached'[DH] = {}
            /\ \A m \in attached[DH] : deleted'[m] /\ status'[m] = "inactive"
            /\ pingFlag'[DH] = "off"
            /\ ssid'[DH] = ""
            /\ status'[DH] = "inactive"]_vars

\* C19: the step of _logout that follows its receive closes the transport,
\* clears the token, sets the status 'inactive', releases the ping lock and
\* returns True.
C19_LogoutCompletes ==
    [][\A t \in Threads :
         (At(t, "_logout", "afterRecv") /\ stack'[t] # stack[t]) =>
            LET h == Top(t).h IN
            /\ ret'[t].proc = "_logout" /\ ret'[t].val = "True"
            /\ sock'[h] = "closed"
            /\ ssid'[h] = ""
            /\ status'[h] = "inactive"
            /\ pingLock'[h] = NoThread]_vars

\* ========================================================================
\* Properties of getData, streamData, endStream and the loops
\* ========================================================================

\* C21: the step in which getData returns hands out returnData exactly when
\* its receive brought a status-true response that carries returnData, and
\* False otherwise (no token, request not sent, nothing received, no status
\* field, status false, no returnData); the caller does not hold the ping
\* lock afterwards.
C21_GetDataResult ==
    [][\A t \in Threads :
         (stack[t] # <<>> /\ Top(t).proc = "getData" /\ ret'[t].proc = "getData") =>
            /\ ret'[t].val \in {"returnData", "False"}
            /\ ret'[t].val = "returnData" <=>
                  /\ Top(t).pc = "afterRecv"
                  /\ ret[t].proc = "_receive" /\ ret[t].ok /\ ret[t].resp = "ok"
            /\ pingLock'[DH] # t]_vars

\* getData has returned False on a status-true response without returnData
C21_Witness ==
    \E t \in Callers :
        /\ ret[t].proc = "getData" /\ ret[t].val = "False"
        /\ ret[t].ok /\ ret[t].resp = "okBare"
        /\ pingLock[DH] # t

\* C22: the step in which an endStream call ends returns True, with the read
\* loop's flag cleared and the multiplexer's subscription registry empty; it
\* does not end by an exception.
C22_EndStreamCompletes ==
    [][\A t \in Threads :
         (/\ stack[t] # <<>>
          /\ Top(t).proc = "endStream"
          /\ Len(stack'[t]) < Len(stack[t])) =>
            /\ tstate'[t] # "raised"
            /\ ret'[t].proc = "endStream" /\ ret'[t].val = "True"
            /\ streamFlag'[Top(t).h] = "off"
            /\ DOMAIN tasks'[Top(t).h] = {}]_vars

\* C23: when the read loop's thread ends inside the endStream it invoked on a
\* failed receive or an empty packet, the flag is cleared, the thread did not
\* wait for itself, and no subscription is left in the multiplexer's registry.
C23_LoopFailureEndsAllStreams ==
    [][\A m \in Muxes :
         LET r == readThread[m] IN
         (/\ Len(stack[r]) >= 2
          /\ stack[r][1].proc = "_readStream"
          /\ stack[r][2].proc = "endStream" /\ stack[r][2].inThread
          /\ tstate'[r] # "run") =>
            /\ streamFlag'[m] = "off"
            /\ stack[r][2].pc # "join"
            /\ DOMAIN tasks'[m] = {}]_vars

\* C24: the step in which streamData returns True adds one entry to the
\* multiplexer's registry and leaves every entry that was there as it was;
\* the read loop's thread is started only by such a step, and only when no
\* read loop was started for this multiplexer before.
C24_RegisterFreshIndex ==
    [][\A m \in Muxes :
         /\ \A t \in Threads :
              (/\ At(t, "streamData", "afterReq") /\ Top(t).h = m
               /\ ret'[t].proc = "streamData" /\ ret'[t].val = "True") =>
                  /\ Cardinality(DOMAIN tasks'[m]) = Cardinality(DOMAIN tasks[m]) + 1
                  /\ \A i \in DOMAIN tasks[m] :
                        i \in DOMAIN tasks'[m] /\ tasks'[m][i] = tasks[m][i]
         /\ (tstate[readThread[m]] # "run" /\ tstate'[readThread[m]] = "run") =>
                  /\ streamFlag[m] = "unset"
                  /\ \E t \in Threads : At(t, "streamData", "afterReq") /\ Top(t).h = m]_vars

\* C25: a step of the Session's _reconnect taken while its socket passes the
\* basic health check ends the call and changes neither the socket, the
\* token, the keepalive loop nor the status of the Session.
C25_ReconnectHealthyNoOp ==
    [][\A t \in Threads :
         (/\ At(t, "DH_reconnect", "begin")
          /\ check_basic(DH)
          /\ stack'[t] # stack[t]) =>
            /\ ret'[t].proc = "DH_reconnect"
            /\ sock'[DH] = sock[DH]
            /\ ssid'[DH] = ssid[DH]
            /\ pingFlag'[DH] = pingFlag[DH]
            /\ tstate'[pingThread[DH]] = tstate[pingThread[DH]]
            /\ status'[DH] = status[DH]]_vars

\* C26: when _stop_ping() called from outside the ping loop returns True, the
\* handler's ping thread has ended and its flag is cleared; a ping thread
\* starts running only in a step of _start_ping; the ping loop's own stop
\* after a failed ping clears the flag and ends the thread in the same step,
\* without a join; and no thread is ever about to join itself.
C26_StopPingJoins ==
    [][\A h \in Handlers :
         LET p == pingThread[h] IN
         /\ \A t \in Threads :
              (/\ At(t, "_stop_ping", "join") /\ Top(t).h = h
               /\ ret'[t].proc = "_stop_ping" /\ ret'[t].val = "True") =>
                  /\ tstate'[p] # "run"
                  /\ pingFlag'[h] = "off"
         /\ (tstate[p] # "run" /\ tstate'[p] = "run") =>
               \E t \in Threads \ {p} :
                  /\ stack[t] # <<>> /\ Top(t).proc = "_start_ping" /\ Top(t).h = h
                  /\ stack'[t] # stack[t]
         /\ (/\ At(p, "_send_ping", "afterReq") \/ At(p, "_send_ping", "afterRecv")
             /\ pingFlag[h] = "on" /\ pingFlag'[h] = "off"
             /\ stack'[p] # stack[p]) =>
               tstate'[p] = "dead"
         /\ \A t \in Threads :
              (At(t, "_stop_ping", "join") \/ At(t, "_start_ping", "join")) =>
                  pingThread[Top(t).h] # t]_vars

\* C27: when a delete() call on a multiplexer ends, its subscriptions are
\* ended and its read loop stopped, its keepalive loop is stopped, its
\* transport is closed, its status is 'inactive' and it is no longer attached
\* to its parent Session.
C27_MuxDeleteTearsDown ==
    [][\A t \in Threads : \A m \in Muxes :
         (\E i \in 1..Len(stack[t]) :
             /\ stack[t][i].proc = "SH_delete" /\ stack[t][i].h = m
             /\ Len(stack'[t]) < i) =>
            /\ DOMAIN tasks'[m] = {}
            /\ streamFlag'[m] # "on"
            /\ pingFlag'[m] # "on"
            /\ tstate'[pingThread[m]] # "run"
            /\ sock'[m] = "closed"
            /\ status'[m] = "inactive"
            /\ m \notin attached'[parent(m)]]_vars

\* C28: a caller that has cleared a loop's flag and waits for the loop's
\* thread (the join of _stop_ping, the join of endStream) eventually finds
\* the thread ended and leaves the join.
C28_StoppedLoopsTerminate ==
    \A t \in Callers :
        /\ \A h \in Handlers :
              (At(t, "_stop_ping", "join") /\ Top(t).h = h)
                 ~> (tstate[pingThread[h]] # "run" /\ ~At(t, "_stop_ping", "join"))
        /\ \A m \in Muxes :
              (At(t, "endStream", "join") /\ Top(t).h = m)
                 ~> (tstate[readThread[m]] # "run" /\ ~At(t, "endStream", "join"))

\* ========================================================================
\* Properties of Client.open and Client.receive
\* ========================================================================

\* C29: an open() call makes a connect attempt only while fewer than
\* max_fails were made, and a successful attempt ends the call at once with
\* True; the call returns True only in that way; it returns False either
\* after max_fails failed attempts or, with no attempt, when the basic check
\* failed and create() failed; create() is called only when the basic check
\* failed.
C29_OpenAttempts ==
    [][/\ (xpc = "open" /\ xattempts' # xattempts) =>
             /\ xattempts < _max_fails /\ xattempts' = xattempts + 1
             /\ (xsock' = "conn" /\ xsock # "conn") <=> (xpc' = "idle" /\ xret'.kind = "True")
       /\ (xret'.op = "open" /\ xpc' = "idle" /\ (xpc = "open" \/ xops' # xops)) =>
             /\ xret'.attempts <= _max_fails
             /\ xret'.created => ~xret'.healthy
             /\ xret'.kind \in {"True", "False"}
             /\ xret'.kind = "True" =>
                   /\ xret'.last = "connected" /\ xattempts' = xattempts + 1
                   /\ xret'.attempts = xattempts'
             /\ xret'.kind = "False" =>
                   \/ xret'.attempts = _max_fails /\ xret'.last # "connected"
                   \/ /\ xret'.attempts = 0 /\ xattempts' = 0
                      /\ ~xret'.healthy /\ xret'.last = "createFailed"]_vars

\* open() has returned False after max_fails = 2 failed attempts on a socket
\* that create() had to make first
C29_Witness ==
    /\ xpc = "idle" /\ xret.op = "open" /\ xret.kind = "False"
    /\ _max_fails = MaxMaxFails /\ xret.attempts = MaxMaxFails
    /\ xret.created /\ xret.last = "refused"

RECURSIVE DecodeAll(_)
DecodeAll(chunks) ==
    IF chunks = <<>> THEN <<>> ELSE decode(Head(chunks)) \o DecodeAll(Tail(chunks))

\* C30: a receive() call ends by returning text or False, never by an
\* exception; in streaming mode the text is the decoded first non-empty chunk
\* and the call ends at the poll that brought it; otherwise the text is the
\* decoded chunks in the order they were read and the call ends at the first
\* poll that brings no bytes; it returns False exactly when the read failed.
C30_ReceiveResult ==
    [][(xpc = "receive" /\ xpc' # "receive") =>
         /\ xret'.kind \in {"value", "False"}
         /\ xret'.kind = "False" <=> xret'.last = "error"
         /\ xret'.kind = "value" =>
               IF _stream
               THEN /\ Len(taken') = 1 /\ taken = <<>>
                    /\ xret'.val = decode(taken'[1])
               ELSE /\ taken' = taken /\ xret'.last = "nothing"
                    /\ xret'.val = DecodeAll(taken)]_vars

\* C31: every write of a send() call follows a writable socket, offers at
\* most bytes_out bytes and hands the socket the next bytes of the message,
\* those after the ones already taken; the call returns True only when the
\* socket has taken the whole message, each byte once and in order, and
\* returns False at the first poll that is not writable or write that
\* raises; what the peer has read is always the beginning of the message, and
\* the whole message once it has read all of a call that returned True.
C31_SendInOrder ==
    [][/\ (spc = "send" /\ send_msg' # send_msg) =>
             /\ spc' = "send"
             /\ send_msg < Len(send_buf)
             /\ send_msg' > send_msg
             /\ send_msg' - send_msg <= MaxBytesOut
       /\ written' = SubSeq(send_buf', 1, send_msg')
       /\ (spc = "send" /\ spc' = "idle") =>
             /\ sret' = "True" <=> send_msg = Len(send_buf)
             /\ sret' = "True" => written' = send_buf
             /\ sret' # "True" => sret' \in {"FalseRaised", "FalseNotWritable"}
             /\ written' = written
       /\ delivered' = SubSeq(send_buf', 1, Len(delivered'))
       /\ (sret' = "True" /\ Len(delivered') = Len(written')) => delivered' = send_buf']_vars

\* a message with a two-byte character went out in two partial writes of one
\* byte each, send() returned True and the peer has read all of it
C31_Witness ==
    /\ spc = "idle" /\ sret = "True"
    /\ send_buf = <<65, 197, 130>>
    /\ delivered = send_buf
    /\ sops = 2

\* ========================================================================
\* Properties of Client.close and Client.send
\* ========================================================================

\* C32: a close() on an open socket with a non-empty history removes the
\* last entry of the history and leaves the others in place; when the call
\* before it was a successful create(), the history is afterwards what it
\* was before that create().
C32_CloseUndoesCreate ==
    [][(cpc = "idle" /\ cops' # cops /\ cret'.op = "close"
          /\ _socket = "open" /\ _used_addresses # <<>>) =>
         /\ cret'.val = "True"
         /\ _used_addresses' = ButLast(_used_addresses)
         /\ (cret.op = "create" /\ cret.val = "True") =>
               _used_addresses' = cret.before]_vars

\* create() succeeded on a transport whose history already held an entry,
\* and the close() that followed has put the history back
C32_Witness ==
    /\ cret.op = "close" /\ cret.val = "True"
    /\ Len(cret.before) = 2
    /\ cret.before[1] # cret.before[2]
    /\ _used_addresses = <<cret.before[1]>>
    /\ _socket = "closed"

\* ========================================================================
\* Properties of the keepalive loop, the pool and the reconnects
\* ========================================================================

\* C33: a keepalive loop sends and receives only while it holds its
\* handler's ping lock, and does not hold it when it goes back to sleep or
\* ends; the ping request of a Session carries no streamSessionId and its
\* response is awaited, the ping request of a multiplexer carries the token
\* the loop was started with and no response is awaited; a ping that failed
\* clears the flag and ends the loop.
C33_PingUnderLock ==
    [][\A h \in Handlers :
         LET p == pingThread[h] IN
         /\ (At(p, "_request", "send") \/ At(p, "_receive", "recv")) =>
               (stack'[p] # stack[p] => pingLock[h] = p)
         /\ (At(p, "_request", "send") /\ Ctx(p).proc = "_send_ping") =>
               Top(p).tok = Ctx(p).tok
         /\ (At(p, "_send_ping", "afterReq") /\ stack'[p] # stack[p]) =>
               /\ ret[p].val = "False" =>
                     pingFlag'[h] = "off" /\ tstate'[p] = "dead" /\ pingLock'[h] # p
               /\ (ret[p].val # "False" /\ h \in Sessions) =>
                     At(p, "_receive", "recv")' /\ Top(p)'.data
               /\ (ret[p].val # "False" /\ h \in Muxes /\ Top(p).tok # "") =>
                     At(p, "_send_ping", "loop")' /\ pingLock'[h] # p
         /\ (At(p, "_send_ping", "afterRecv") /\ stack'[p] # stack[p]) =>
               /\ pingLock'[h] # p
               /\ ret[p].val = "False" => pingFlag'[h] = "off" /\ tstate'[p] = "dead"]_vars

\* C34: with several threads inside provide_DataHandler / provide_StreamHandler
\* the connection count stays within MAX_CONNECTIONS, it equals the number of
\* registered handlers whenever no thread stands between a registration and
\* its count, and a thread that has passed the budget check of
\* _generate_DataHandler still finds the budget free when it allocates.
C34_CheckThenAllocate ==
    /\ \A t \in PoolThreads : ppc[t] = "gd_new" => connections < MAX_CONNECTIONS
    /\ (\A t \in PoolThreads : ppc[t] \notin {"gd_count", "gs_count"}) =>
          connections = Len(dataReg) + Len(streamReg)
    /\ connections <= MAX_CONNECTIONS

\* ---------------------------------------------------------------------------
\* Properties of the reconnect paths and their locks
\* ---------------------------------------------------------------------------

\* t is inside phase (b) of the multiplexer's _reconnect
InPhaseB(t) ==
    \E i \in 1..Len(stack[t]) :
        /\ stack[t][i].proc = "SH_reconnect"
        /\ stack[t][i].pc \in {"b_create", "b_afterOpen", "b_afterKA", "b_done"}

\* t stands before a `with self._ping_lock` of a handler whose ping lock it holds
WaitsForOwnPingLock(t) ==
    /\ \/ At(t, "streamData", "lock")
       \/ At(t, "_login", "lock")
       \/ At(t, "getData", "lock")
       \/ At(t, "_send_ping", "lock")
    /\ pingLock[Top(t).h] = t

\* C35: a multiplexer's _reconnect that repairs its own socket goes through
\* phase (b) without its thread ever standing before a ping lock that the
\* same thread already holds, whichever caller triggered the reconnect.
C35_PhaseBNeverSelfBlocked ==
    \A t \in Threads : InPhaseB(t) => ~WaitsForOwnPingLock(t)

\* t holds the Session's ping lock and stands before `with self._reconnect_lock`
\* of the Session's _reconnect, which another thread holds
HoldsPingWantsReconnect(t) ==
    /\ pingLock[DH] = t
    /\ At(t, "DH_reconnect", "begin")
    /\ reconnLock[DH] \notin {NoThread, t}

\* u holds the Session's reconnect lock, taken in phase (a) of the
\* multiplexer's _reconnect, and stands before `with self._ping_lock` of the
\* Session's _login, which another thread holds
HoldsReconnectWantsPing(u) ==
    /\ reconnLock[DH] = u
    /\ At(u, "_login", "lock")
    /\ Top(u).h = DH
    /\ \E i \in 1..Len(stack[u]) :
          stack[u][i].proc = "SH_reconnect" /\ stack[u][i].pc = "a_afterLogin"
    /\ pingLock[DH] \notin {NoThread, u}

\* C36: the Session's ping lock and reconnect lock are never in a circular
\* wait: no state has one thread holding the ping lock and waiting for the
\* reconnect lock while another holds the reconnect lock and waits for the
\* ping lock.
C36_NoCircularWait ==
    \A t, u \in Threads :
        ~(t # u /\ HoldsPingWantsReconnect(t) /\ HoldsReconnectWantsPing(u))

\* t is inside a _reconnect of the Session or of a multiplexer
InReconnect(t) ==
    \E i \in 1..Len(stack[t]) : stack[t][i].proc \in {"DH_reconnect", "SH_reconnect"}

\* C37: a _reconnect of the Session or of the multiplexer that returns True
\* or False has released the Session's reconnect lock in the step that
\* returns, on the success path and on every failure path of both phases.
C37_ReturnReleasesReconnectLock ==
    [][\A t \in Threads :
          ( /\ stack[t] # <<>>
            /\ Top(t).proc \in {"DH_reconnect", "SH_reconnect"}
            /\ stack'[t] = PopOff(stack[t])
            /\ ret'[t].val \in {"True", "False"} )
          => /\ reconnLock'[DH] # t
             /\ ~InReconnect(t)'
    ]_vars

\* a multiplexer's _reconnect has returned False after the Session's socket
\* could not be recreated, and the reconnect lock is free
C37_Witness ==
    \E t \in Threads :
        /\ ret[t].proc = "SH_reconnect"
        /\ ret[t].val = "False"
        /\ ~InReconnect(t)
        /\ ~check_basic(DH)
        /\ reconnLock[DH] = NoThread

\* ---------------------------------------------------------------------------
\* Properties of the Session's status and token
\* ---------------------------------------------------------------------------

\* no _login, _logout or _reconnect that works on the Session is running
SessionQuiet ==
    \A t \in Threads : \A i \in 1..Len(stack[t]) :
        /\ stack[t][i].proc \notin {"DH_reconnect", "SH_reconnect"}
        /\ stack[t][i].proc \in {"_login", "_logout"} => stack[t][i].h # DH

\* C38: while no login, logout or reconnect of the Session is running, status
\* 'active' implies a non-empty token; a logout that completes leaves the
\* token empty and the status 'inactive', and from then on both stay so until
\* a step of _login that succeeds sets the token and the status together.
C38_StatusAndToken ==
    /\ [](SessionQuiet /\ status[DH] = "active" => ssid[DH] # "")
    /\ [][\A t \in Threads :
            ( /\ At(t, "_logout", "afterRecv")
              /\ Top(t).h = DH
              /\ stack'[t] = PopOff(stack[t]) )
            => ssid'[DH] = "" /\ status'[DH] = "inactive"
       ]_vars
    /\ [][ (ssid[DH] = "" /\ status[DH] = "inactive")
            => \/ ssid'[DH] = "" /\ status'[DH] = "inactive"
               \/ /\ ssid'[DH] # "" /\ status'[DH] = "active"
                  /\ \E t \in Threads :
                        /\ At(t, "_login", "afterRecv")
                        /\ Top(t).h = DH
                        /\ ret'[t] = Result("_login", "True")
       ]_vars

\* the Session was logged out: its _logout has returned, the token is empty
\* and the status is 'inactive', and nothing works on the Session
C38_Witness ==
    /\ SessionQuiet
    /\ ssid[DH] = ""
    /\ status[DH] = "inactive"
    /\ \E t \in Callers : ret[t].proc = "_logout" /\ ret[t].val = "True"

\* ---------------------------------------------------------------------------
\* Properties of what the HandlerManager hands out
\* ---------------------------------------------------------------------------

\* C39: the step in which provide_DataHandler returns, to the wrapper or to
\* _generate_StreamHandler, returns False or a Session whose status is
\* 'active', also when the Session was allocated by this call.
C39_ProvidedSessionActive ==
    [][\A t \in PoolThreads :
          ( /\ ppc[t] \in {"pd_avlb", "gd_check", "gd_count"}
            /\ ppc'[t] \in {"idle", "gs_new"} )
          => \/ plocal'[t].dh = NoHandler
             \/ dataReg'[plocal'[t].dh].status = "active"
    ]_vars

\* ---------------------------------------------------------------------------
\* Properties of the read loop and the subscriptions
\* ---------------------------------------------------------------------------

\* C40: whenever a multiplexer that has not been deleted holds a registered
\* subscription and no endStream is at work on it, its read loop's thread is
\* running; so a subscription that streamData registers after the read loop
\* has ended has a new read loop.
C40_SubscriptionsHaveReader ==
    \A m \in Muxes :
        ( /\ DOMAIN tasks[m] # {}
          /\ ~deleted[m]
          /\ \A t \in Threads : \A i \in 1..Len(stack[t]) :
                ~(stack[t][i].proc = "endStream" /\ stack[t][i].h = m) )
        => tstate[readThread[m]] = "run"

============================================================================
